---- MODULE Spec2Model ----
(***************************************************************************)
(* Apple ANS NVMe host driver (drivers/nvme/host/apple-ans.c): the queue   *)
(* pair (completion ring with phase detection, tag-indexed submission      *)
(* ring), the NVMMU tag tracking table (TCBs), the completion reaper, the  *)
(* timeout / abort / reset state machine and device disable.               *)
(*                                                                         *)
(* The device (ANS2 controller) and the block layer are the environment.   *)
(* Ring depths and tag ranges keep the relations the driver gives them     *)
(* (admin ring = NVME_AQ_DEPTH, I/O ring = APPLE_ANS2_QUEUE_DEPTH, I/O     *)
(* tags start above the NVME_AQ_DEPTH reserved ones) at small sizes.       *)
(***************************************************************************)
EXTENDS Integers, Sequences, FiniteSets, TLC

\* ------------------------------------------------------------------ sizes

\* NVME_AQ_DEPTH (32 in the kernel): admin ring depth, reserved I/O tags.
AdminDepth == 3
\* APPLE_ANS2_QUEUE_DEPTH (64 in the driver): I/O ring depth.
QueueDepth == 6
\* ctrl->abort_limit after identify (acl + 1).
AbortLimit == 1
\* Requests blk-mq dispatches and runs of the reset work in one behaviour.
MaxSubmit == 2
MaxReset == 2
\* Concurrent submitters of the submit sequence.
NThreads == 2
\* Arms of tracking entries in one behaviour of the table alone.
MaxArm == 3
\* Entries of a freed ring that take a new value in one behaviour.
MaxScribble == 1

\* Data mapping: pointers per PRP list page, pointers per block of the small
\* pool, segments per request, blocks per pool.
PrpsPerPage == 4
SmallPrps == 2
MaxFrags == 3
PoolBlocks == 3

Queues == {"admin", "io"}

\* nvmeq->q_depth as apple_nvme_alloc_queue sets it.
q_depth(q) == IF q = "admin" THEN AdminDepth ELSE QueueDepth

\* Submissions explored on one queue pair alone: enough to lap its ring.
RingBudget(q) == q_depth(q) + 1

\* APPLE_NVMMU_NUM_TCBS: one tracking entry per tag of the I/O ring.
APPLE_NVMMU_NUM_TCBS == QueueDepth

\* NVME_AQ_BLK_MQ_DEPTH = NVME_AQ_DEPTH - 1: the command id of the
\* asynchronous event request (apple_nvme_submit_async_event).
NVME_AQ_BLK_MQ_DEPTH == AdminDepth - 1

\* Tags blk-mq hands out: admin_tagset.queue_depth = NVME_AQ_MQ_TAG_DEPTH
\* (= NVME_AQ_BLK_MQ_DEPTH - 1); tagset.queue_depth = QUEUE_DEPTH - 1 with
\* the first NVME_AQ_DEPTH tags reserved.
AdminTags == 0 .. (NVME_AQ_BLK_MQ_DEPTH - 2)
\* An I/O tag set with no reserved tags.
IoTagsUnreserved == 0 .. (QueueDepth - 2)
IoTags == AdminDepth .. (QueueDepth - 2)
TagsOf(q) == IF q = "admin" THEN AdminTags ELSE IoTags
TcbTags == 0 .. (APPLE_NVMMU_NUM_TCBS - 1)

\* --------------------------------------------------------------- variables

VARIABLES
  ctrl_state,     \* dev->ctrl.state
  csts_cfs,       \* NVME_REG_CSTS, NVME_CSTS_CFS bit (device)
  csts_rdy,       \* NVME_REG_CSTS, NVME_CSTS_RDY bit (device)
  cc_enable,      \* dev->ctrl.ctrl_config & NVME_CC_ENABLE
  queue_count,    \* dev->ctrl.queue_count
  abort_limit,    \* dev->ctrl.abort_limit
  reset_work,     \* dev->ctrl.reset_work: "idle", "queued", or running and
                  \* waiting for its identify ("wait", then "ok" / "failed")
  remove_work,    \* dev->remove_work is queued
  aen_work,       \* ctrl->async_event_work is queued
  has_tagset,     \* dev->ctrl.tagset != NULL
  stopped,        \* [q] the blk-mq queues of the tag set are quiesced
  enabled,        \* [q] NVMEQ_ENABLED in nvmeq->flags
  online,         \* [q] dev->adminq_online / dev->ioq_online
  q_mem,          \* [q] ring and table memory: "none", "live", "freed"
  cq_head,        \* [q] nvmeq->cq_head
  cq_phase,       \* [q] nvmeq->cq_phase
  cqes,           \* [q] nvmeq->cqes[0 .. q_depth-1]
  tcb,            \* [q] the TCB table at nvmeq->ans2_tcb_ptr
  sq_cmds,        \* [q] nvmeq->sq_cmds, one slot per tag
  sq_db,          \* [q] commands the device has been told of and not answered
  cq_db,          \* [q] last value written to the completion doorbell
  dev_tail,       \* [q] device: next completion slot it writes
  dev_phase,      \* [q] device: phase bit it writes
  rq,             \* [q][tag] the blk-mq request and its apple_nvme_iod
  aen_out,        \* the asynchronous event request is with the device
  tmo,            \* the timeout handler in progress and its last outcome
  drain,          \* the nvme_process_cq call in progress (step-wise drains)
  thr,            \* submitter threads inside apple_nvme_submit_cmd
  dd,             \* apple_nvme_dev_disable in progress (step-wise runs)
  hist,           \* history: what was armed, handled, finalized, counted
  prp,            \* one request's data mapping: its fragments, its iod, the
                  \* command's pointers and the PRP list pools
  sart,           \* the address filter: its registers and struct apple_sart
  shutdown_lock,  \* dev->shutdown_lock: "free", "held", or "deadlock"
  rtk,            \* struct apple_rtkit: the coprocessor's boot state machine
  probe           \* apple_nvme_probe: where it is, its result and what it has done

vars == << ctrl_state, csts_cfs, csts_rdy, cc_enable, queue_count, abort_limit,
           reset_work, remove_work, aen_work, has_tagset, stopped, enabled,
           online, q_mem, cq_head, cq_phase, cqes, tcb, sq_cmds, sq_db, cq_db,
           dev_tail, dev_phase, rq, aen_out, tmo, drain, thr, dd, hist, prp,
           sart,
           shutdown_lock,
           rtk,
           probe >>

\* ------------------------------------------------------------ data shapes

\* struct nvme_completion: command_id and status (bit 0 is the phase).
ZeroCqe == [command_id |-> 0, status |-> 0]
ZeroRing(q) == [i \in 0 .. (q_depth(q) - 1) |-> ZeroCqe]

\* struct apple_nvmmu_tcb after memset(tcb, 0, sizeof(*tcb)).
ZeroTcb == [opcode |-> 0, dma_flags |-> 0, command_id |-> 0, length |-> 0,
            prp1 |-> 0, prp2 |-> 0]
ZeroTable == [t \in TcbTags |-> ZeroTcb]

\* A submission ring slot that holds no command (zeroed coherent memory).
\* cdw10 is the dword of the union that abort.cid (with abort.sqid) occupies.
ZeroCmd == [opcode |-> 0, command_id |-> 0, prp1 |-> 0, prp2 |-> 0,
            length |-> 0, cdw10 |-> 0]
ZeroSq == [t \in TcbTags |-> ZeroCmd]

APPLE_ANS2_TCB_DMA_FROM_DEVICE == 1
APPLE_ANS2_TCB_DMA_TO_DEVICE == 2

\* Opcodes the model submits: nvme_cmd_write (1) and nvme_cmd_read (2) on
\* the I/O queue; nvme_admin_identify (6), nvme_admin_abort_cmd (8) and
\* nvme_admin_async_event (12) on the admin queue.
IoOpcodes == {1, 2}
AdminOpcodes == {6}
nvme_admin_abort_cmd == 8
nvme_admin_delete_sq == 0
nvme_admin_delete_cq == 4
nvme_admin_create_sq == 1
nvme_admin_create_cq == 5
nvme_admin_async_event == 12

\* nvme_is_write(): bit 0 of the opcode.
nvme_is_write(cmd) == cmd.opcode % 2 = 1

\* A request of the tag set and its iod: blk-mq's rq->state, iod->aborted,
\* NVME_REQ_CANCELLED, the status it completed with, its end_io callback.
IdleRq == [state |-> "idle", aborted |-> 0, cancelled |-> FALSE,
           status |-> "none", end_io |-> "none"]

\* The machine state a handler works on: every variable by name. A handler
\* is an operator from machine state to machine state; an action commits
\* the state its handler returns.
Cur == [ctrl_state |-> ctrl_state, csts_cfs |-> csts_cfs, csts_rdy |-> csts_rdy,
        cc_enable |-> cc_enable, queue_count |-> queue_count,
        abort_limit |-> abort_limit, reset_work |-> reset_work,
        remove_work |-> remove_work, aen_work |-> aen_work,
        has_tagset |-> has_tagset, stopped |-> stopped, enabled |-> enabled, online |-> online,
        q_mem |-> q_mem, cq_head |-> cq_head, cq_phase |-> cq_phase,
        cqes |-> cqes, tcb |-> tcb, sq_cmds |-> sq_cmds, sq_db |-> sq_db,
        cq_db |-> cq_db, dev_tail |-> dev_tail, dev_phase |-> dev_phase,
        rq |-> rq, aen_out |-> aen_out, tmo |-> tmo, drain |-> drain,
        thr |-> thr, dd |-> dd, hist |-> hist, prp |-> prp,
        sart |-> sart,
        shutdown_lock |-> shutdown_lock,
        rtk |-> rtk,
        probe |-> probe]

Commit(m) ==
  /\ ctrl_state' = m.ctrl_state /\ csts_cfs' = m.csts_cfs
  /\ csts_rdy' = m.csts_rdy /\ cc_enable' = m.cc_enable
  /\ queue_count' = m.queue_count /\ abort_limit' = m.abort_limit
  /\ reset_work' = m.reset_work /\ remove_work' = m.remove_work
  /\ aen_work' = m.aen_work /\ has_tagset' = m.has_tagset
  /\ stopped' = m.stopped
  /\ enabled' = m.enabled /\ online' = m.online /\ q_mem' = m.q_mem
  /\ cq_head' = m.cq_head /\ cq_phase' = m.cq_phase /\ cqes' = m.cqes
  /\ tcb' = m.tcb /\ sq_cmds' = m.sq_cmds /\ sq_db' = m.sq_db
  /\ cq_db' = m.cq_db /\ dev_tail' = m.dev_tail /\ dev_phase' = m.dev_phase
  /\ rq' = m.rq /\ aen_out' = m.aen_out /\ tmo' = m.tmo /\ drain' = m.drain
  /\ thr' = m.thr /\ dd' = m.dd /\ hist' = m.hist /\ prp' = m.prp
  /\ sart' = m.sart
  /\ shutdown_lock' = m.shutdown_lock
  /\ rtk' = m.rtk
  /\ probe' = m.probe

\* ------------------------------------------------- tag tracking table (TCB)

\* An invalidate that clears only the opcode of the entry.
nvmmu_inval_opcode_only(q, tag, m) ==
  [m EXCEPT !.tcb[q][tag].opcode = 0,
            !.hist.armed[q] = @ \ {tag}]

\* apple_nvmmu_inval: memset the slot of the tag; the write of the tag to
\* APPLE_NVMMU_TCB_INVAL is recorded in hist.armed (the arm is answered).
apple_nvmmu_inval(q, tag, m) ==
  [m EXCEPT !.tcb[q][tag] = ZeroTcb,
            !.hist.armed[q] = @ \ {tag}]

\* apple_nvme_submit_cmd, first half: memset the slot, then mirror the
\* command's opcode, pointers, length, tag and direction into it.
tcb_memset(table, tag) == [table EXCEPT ![tag] = ZeroTcb]

\* A fill that leaves the data pointers of the entry out.
tcb_fill_no_pointers(table, tag, cmd) ==
  [table EXCEPT ![tag] =
     [@ EXCEPT !.opcode = cmd.opcode, !.length = cmd.length,
               !.command_id = tag,
               !.dma_flags = IF nvme_is_write(cmd)
                             THEN APPLE_ANS2_TCB_DMA_TO_DEVICE
                             ELSE APPLE_ANS2_TCB_DMA_FROM_DEVICE]]

tcb_fill(table, tag, cmd) ==
  [table EXCEPT ![tag] =
     [@ EXCEPT !.opcode = cmd.opcode, !.prp1 = cmd.prp1, !.prp2 = cmd.prp2,
               !.length = cmd.length, !.command_id = tag,
               !.dma_flags = IF nvme_is_write(cmd)
                             THEN APPLE_ANS2_TCB_DMA_TO_DEVICE
                             ELSE APPLE_ANS2_TCB_DMA_FROM_DEVICE]]

\* A submit that copies into the slot at the head of the ring.
sq_slot_first(tag) == 0

\* apple_nvme_submit_cmd, second half: the slot of the submission ring is
\* the one indexed by the tag.
sq_slot(tag) == tag

sq_copy(sq, tag, cmd) == [sq EXCEPT ![sq_slot(tag)] = cmd]

\* apple_nvme_submit_cmd as one step: arm the TCB, copy the command, ring
\* the linear submission doorbell with the tag.
apple_nvme_submit_cmd(q, cmd, m) ==
  LET tag == cmd.command_id IN
  [m EXCEPT !.tcb[q] = tcb_fill(tcb_memset(@, tag), tag, cmd),
            !.sq_cmds[q] = sq_copy(@, tag, cmd),
            !.sq_db[q] = @ \cup {tag},
            !.hist.rearm = @ \cup (IF tag \in m.hist.armed[q]
                                  THEN {<<q, tag>>} ELSE {}),
            !.hist.armed[q] = @ \cup {tag}]

\* ----------------------------------------------------------- completion ring

\* A reaper that tests the phase bit against the constant 1.
cqe_pending_fixed_phase(q, m) ==
  (m.cqes[q][m.cq_head[q]].status % 2) = 1

\* apple_nvme_cqe_pending: the phase bit of the entry at cq_head against the
\* queue's phase.
apple_nvme_cqe_pending(q, m) ==
  (m.cqes[q][m.cq_head[q]].status % 2) = m.cq_phase[q]

\* A head update that wraps without flipping the phase.
update_cq_head_no_flip(q, m) ==
  LET tmp == m.cq_head[q] + 1 IN
  IF tmp = q_depth(q)
  THEN [m EXCEPT !.cq_head[q] = 0]
  ELSE [m EXCEPT !.cq_head[q] = tmp]

\* apple_nvme_update_cq_head.
apple_nvme_update_cq_head(q, m) ==
  LET tmp == m.cq_head[q] + 1 IN
  IF tmp = q_depth(q)
  THEN [m EXCEPT !.cq_head[q] = 0, !.cq_phase[q] = (@ + 1) % 2]
  ELSE [m EXCEPT !.cq_head[q] = tmp]

\* apple_nvme_ring_cq_doorbell.
apple_nvme_ring_cq_doorbell(q, m) == [m EXCEPT !.cq_db[q] = m.cq_head[q]]

\* nvme_is_aen_req(qid, command_id).
nvme_is_aen_req(q, command_id) ==
  q = "admin" /\ command_id >= NVME_AQ_BLK_MQ_DEPTH

\* nvme_find_rq on the queue's tag set: the request of an allocatable tag.
nvme_find_rq(q, command_id) == command_id \in TagsOf(q)

\* nvme_try_complete_req: status into the request, rq->state = COMPLETE, the
\* completion itself runs from the block softirq. hist.dup keeps the requests
\* that were completed while not in flight (completed already, or free).
nvme_try_complete_req(q, tag, status, m) ==
  [m EXCEPT !.rq[q][tag].state = "complete",
            !.rq[q][tag].status = status,
            !.hist.dup = @ \cup (IF m.rq[q][tag].state # "in_flight"
                                 THEN {<<q, tag>>} ELSE {})]

\* The history of a handled entry: it must be one the device posted and the
\* reaper has not handled yet, with the phase the reaper waits for.
cqe_seen(q, cqe, m) ==
  [m EXCEPT !.hist.stale = @ \/ (m.hist.unreaped[q] = 0)
                             \/ (cqe.status % 2 # m.cq_phase[q]),
            !.hist.unreaped[q] = IF @ > 0 THEN @ - 1 ELSE 0,
            !.hist.consumed[q] = (@ + 1) % (2 * q_depth(q))]

\* A handler that takes a command id it finds no request for as a failure
\* of the controller and schedules a reset.
handle_cqe_unknown_fatal(q, cqe, inv) ==
  IF nvme_is_aen_req(q, cqe.command_id)
  THEN [inv EXCEPT !.aen_out = FALSE, !.aen_work = TRUE]
  ELSE IF ~nvme_find_rq(q, cqe.command_id)
  THEN [inv EXCEPT !.reset_work = "queued"]
  ELSE nvme_try_complete_req(q, cqe.command_id,
                             IF cqe.status \div 2 = 0 THEN "ok" ELSE "error",
                             inv)

\* apple_nvme_handle_cqe after the invalidate: the asynchronous event, an id
\* with no request, or the completion of the request.
handle_cqe_complete(q, cqe, inv) ==
  IF nvme_is_aen_req(q, cqe.command_id)
  THEN [inv EXCEPT !.aen_out = FALSE, !.aen_work = TRUE]
  ELSE IF ~nvme_find_rq(q, cqe.command_id)
  THEN inv
  ELSE nvme_try_complete_req(q, cqe.command_id,
                             IF cqe.status \div 2 = 0 THEN "ok" ELSE "error",
                             inv)

\* apple_nvme_handle_cqe on the entry at idx.
apple_nvme_handle_cqe(q, idx, m) ==
  handle_cqe_complete(q, m.cqes[q][idx],
    apple_nvmmu_inval(q, m.cqes[q][idx].command_id,
                      cqe_seen(q, m.cqes[q][idx], m)))

\* A loop that writes the doorbell after every entry.
reap_one_rings(q, m) ==
  apple_nvme_ring_cq_doorbell(q,
    apple_nvme_update_cq_head(q,
      apple_nvme_handle_cqe(q, m.cq_head[q],
                            [m EXCEPT !.drain.found = @ + 1])))

\* One iteration of the loop of nvme_process_cq.
reap_one(q, m) ==
  apple_nvme_update_cq_head(q,
    apple_nvme_handle_cqe(q, m.cq_head[q],
                          [m EXCEPT !.drain.found = @ + 1]))

\* nvme_process_cq from entry to return; drain.found is its local count.
RECURSIVE process_cq_loop(_, _)
process_cq_loop(q, m) ==
  IF apple_nvme_cqe_pending(q, m)
  THEN process_cq_loop(q, reap_one(q, m))
  ELSE m

process_cq_end(q, r) ==
  [(IF r.drain.found > 0 THEN apple_nvme_ring_cq_doorbell(q, r) ELSE r)
     EXCEPT !.drain.found = 0]

nvme_process_cq(q, m) ==
  process_cq_end(q, process_cq_loop(q, [m EXCEPT !.drain.found = 0]))

\* The value nvme_process_cq returns: found.
process_cq_ret(q, m) ==
  process_cq_loop(q, [m EXCEPT !.drain.found = 0]).drain.found

\* apple_nvme_irq: drain the admin queue, then the I/O queue, each if online.
irq_io(a) == IF a.online["io"] THEN nvme_process_cq("io", a) ELSE a

irq_admin(m) == IF m.online["admin"] THEN nvme_process_cq("admin", m) ELSE m

apple_nvme_irq(m) == irq_io(irq_admin(m))

\* The value apple_nvme_irq returns: TRUE for IRQ_HANDLED.
irq_handled(m) ==
  \/ m.online["admin"] /\ process_cq_ret("admin", m) > 0
  \/ irq_admin(m).online["io"] /\ process_cq_ret("io", irq_admin(m)) > 0

\* ---------------------------------------------------------------- the device

\* The controller takes a command it was told of when it is ready and not in
\* fatal state, and has a free completion slot behind the head it was told.
device_can_post(q, tag, m) ==
  /\ m.csts_rdy /\ ~m.csts_cfs
  /\ tag \in m.sq_db[q]
  /\ (m.dev_tail[q] + 1) % q_depth(q) # m.cq_db[q]

\* The completion of the command: status success, the device's phase bit.
device_post(q, tag, m) ==
  [m EXCEPT !.cqes[q][m.dev_tail[q]] =
               [command_id |-> tag, status |-> m.dev_phase[q]],
            !.dev_tail[q] = (@ + 1) % q_depth(q),
            !.dev_phase[q] = IF m.dev_tail[q] + 1 = q_depth(q)
                             THEN (@ + 1) % 2 ELSE @,
            !.sq_db[q] = @ \ {tag},
            !.hist.unreaped[q] = @ + 1]

\* The controller side of a queue that is created anew: an empty submission
\* queue, completion tail 0, phase 1, head doorbell 0.
device_queue_reset(q, m) ==
  [m EXCEPT !.sq_db[q] = {}, !.dev_tail[q] = 0, !.dev_phase[q] = 1,
            !.cq_db[q] = 0]

\* ------------------------------------------------------- data mapping (PRP)

\* The controller page, in bytes: PrpsPerPage pointers of 8 bytes each fill
\* one (NVME_CTRL_PAGE_SIZE >> 3 pointers per PRP list page).
NVME_CTRL_PAGE_SIZE == PrpsPerPage * 8

\* DMA addresses. Fragment k of a request lies in a region of its own; the
\* blocks of the two PRP list pools lie above all data.
\* addr & (NVME_CTRL_PAGE_SIZE - 1).
page_offset(addr) == addr % NVME_CTRL_PAGE_SIZE

DataStride == 16 * NVME_CTRL_PAGE_SIZE
DataBase(k) == k * DataStride
SmallPool == {(MaxFrags + 1) * DataStride + j * NVME_CTRL_PAGE_SIZE :
                j \in 0 .. (PoolBlocks - 1)}
PagePool == {(MaxFrags + 2) * DataStride + j * NVME_CTRL_PAGE_SIZE :
               j \in 0 .. (PoolBlocks - 1)}
PoolOf(pool) == IF pool = "small" THEN SmallPool ELSE PagePool

\* Memory of a pool block as dma_pool_alloc hands it out: not initialised.
Junk == -1
PoolSlots(pool) == IF pool = "small" THEN SmallPrps ELSE PrpsPerPage
JunkBlock(pool) == [i \in 0 .. (PoolSlots(pool) - 1) |-> Junk]

\* The iod as apple_nvme_queue_rq sets it before mapping (npages = -1,
\* nents = 0); dma_len, first_dma and sg are whatever the last use left.
NewIod == [npages |-> -1, nents |-> 0, first_dma |-> 0, dma_len |-> 0,
           sg |-> FALSE]

\* A request with data before apple_nvme_queue_rq: its physical segments
\* (page, offset, len each), blk_rq_payload_bytes, and the pools at rest.
\* got is the block the last dma_pool_alloc returned (0 is NULL), budget
\* the number of pool allocations that still succeed, nomem whether one has
\* failed.
NewPrp(frags, length) ==
  [pc |-> "new", frags |-> frags, length |-> length, iod |-> NewIod,
   list |-> << >>, cmd |-> [prp1 |-> 0, prp2 |-> 0],
   mem |-> [a \in SmallPool \cup PagePool |->
              JunkBlock(IF a \in SmallPool THEN "small" ELSE "page")],
   free |-> [small |-> SmallPool, page |-> PagePool],
   sg_free |-> 1, budget |-> 0, got |-> 0, ret |-> "none",
   bad_free |-> FALSE, nomem |-> FALSE, tag |-> 0]

\* sg_dma_address / sg_dma_len of entry k of the mapped list.
sg_dma_address(p, k) == p.frags[k].page + p.frags[k].offset
sg_dma_len(p, k) == p.frags[k].len

\* The block a pool hands out next.
first_free(S) == CHOOSE a \in S : \A b \in S : a <= b

\* dma_pool_alloc(pool, GFP_ATOMIC, &prp_dma): the first free block, or
\* NULL when the allocation fails.
dma_pool_alloc(pool, p) ==
  IF p.budget = 0 \/ p.free[pool] = {}
  THEN [p EXCEPT !.got = 0, !.nomem = TRUE]
  ELSE [p EXCEPT !.got = first_free(p.free[pool]),
                 !.free[pool] = @ \ {first_free(p.free[pool])},
                 !.mem[first_free(p.free[pool])] = JunkBlock(pool),
                 !.budget = @ - 1]

\* dma_pool_free(pool, vaddr, dma): the block returns to the pool; a block
\* that is not out of this pool (freed twice, or not of this pool, or named
\* by two different addresses) is recorded in bad_free.
dma_pool_free(pool, vaddr, dma, p) ==
  IF vaddr = dma /\ vaddr \in PoolOf(pool) /\ vaddr \notin p.free[pool]
  THEN [p EXCEPT !.free[pool] = @ \cup {vaddr}]
  ELSE [p EXCEPT !.bad_free = TRUE]

\* apple_nvme_free_prps: npages blocks of the page pool, the address of
\* each next one read from the last slot of the one before.
RECURSIVE free_prps_from(_, _, _)
free_prps_from(i, dma_addr, p) ==
  IF i >= p.iod.npages THEN p
  ELSE free_prps_from(i + 1, p.mem[p.list[i + 1]][PrpsPerPage - 1],
                      dma_pool_free("page", p.list[i + 1], dma_addr, p))

apple_nvme_free_prps(p) == free_prps_from(0, p.iod.first_dma, p)

\* mempool_free(iod->sg, dev->iod_mempool).
mempool_free_sg(p) ==
  [p EXCEPT !.sg_free = @ + 1, !.iod.sg = FALSE,
            !.bad_free = @ \/ ~p.iod.sg]

\* apple_nvme_unmap_data.
apple_nvme_unmap_data(p) ==
  IF p.iod.dma_len # 0 THEN p
  ELSE mempool_free_sg(
         IF p.iod.npages = 0
         THEN dma_pool_free("small", p.list[1], p.iod.first_dma, p)
         ELSE apple_nvme_free_prps(p))

\* sg_next: the index of the next entry, 0 (NULL) after the last one.
sg_next(p, k) == IF k < Len(p.frags) THEN k + 1 ELSE 0

\* list[n] = v in the iod's array of list pages (list[0] is list[1] here).
list_put(list, n, v) ==
  [j \in 1 .. (IF n + 1 > Len(list) THEN n + 1 ELSE Len(list)) |->
     IF j = n + 1 THEN v ELSE list[j]]

\* The three ways apple_nvme_setup_prps ends without freeing anything: the
\* label done, the label bad_sgl, and the read of sg_dma_address through
\* the NULL that sg_next returned (an oops in the submitting context).
prps_done(p) ==
  [p EXCEPT !.cmd.prp1 = sg_dma_address(p, 1),
            !.cmd.prp2 = p.iod.first_dma,
            !.ret = "ok"]
prps_bad_sgl(p) == [p EXCEPT !.ret = "ioerr"]
prps_oops(p) == [p EXCEPT !.ret = "oops"]

\* A label free_prps that returns the status and frees nothing.
prps_free_nothing(p) == [p EXCEPT !.ret = "resource"]

\* The label free_prps.
prps_free(p) == [apple_nvme_free_prps(p) EXCEPT !.ret = "resource"]

\* The loop of apple_nvme_setup_prps. sg is the current entry, dma_addr and
\* dma_len what is left of it, length what is left of the transfer, i the
\* next slot of the list page prp_list.
RECURSIVE prps_loop(_, _, _, _, _, _, _, _)

\* prp_list[i++] = dma_addr and the rest of the loop body.
prps_store(pool, sg, dma_addr, dma_len, length, i, prp_list, p) ==
  IF length - NVME_CTRL_PAGE_SIZE <= 0
  THEN prps_done([p EXCEPT !.mem[prp_list][i] = dma_addr])
  ELSE IF dma_len - NVME_CTRL_PAGE_SIZE > 0
  THEN prps_loop(pool, sg, dma_addr + NVME_CTRL_PAGE_SIZE,
                 dma_len - NVME_CTRL_PAGE_SIZE,
                 length - NVME_CTRL_PAGE_SIZE, i + 1, prp_list,
                 [p EXCEPT !.mem[prp_list][i] = dma_addr])
  ELSE IF dma_len - NVME_CTRL_PAGE_SIZE < 0
  THEN prps_bad_sgl([p EXCEPT !.mem[prp_list][i] = dma_addr])
  ELSE IF sg_next(p, sg) = 0
  THEN prps_oops([p EXCEPT !.mem[prp_list][i] = dma_addr])
  ELSE prps_loop(pool, sg_next(p, sg), sg_dma_address(p, sg_next(p, sg)),
                 sg_dma_len(p, sg_next(p, sg)),
                 length - NVME_CTRL_PAGE_SIZE, i + 1, prp_list,
                 [p EXCEPT !.mem[prp_list][i] = dma_addr])

\* A chaining that links the new page in without moving the pointer the
\* link overwrites.
prps_chain_no_move(pool, sg, dma_addr, dma_len, length, i, old_prp_list, a) ==
  IF a.got = 0 THEN prps_free(a)
  ELSE prps_store(pool, sg, dma_addr, dma_len, length, 0, a.got,
         [a EXCEPT !.list = list_put(@, a.iod.npages, a.got),
                   !.iod.npages = @ + 1,
                   !.mem[old_prp_list][i - 1] = a.got])

\* The list page is full: a new one is allocated, the last pointer of the
\* old page moves to slot 0 of the new one and the old slot links to it.
prps_chain(pool, sg, dma_addr, dma_len, length, i, old_prp_list, a) ==
  IF a.got = 0 THEN prps_free(a)
  ELSE prps_store(pool, sg, dma_addr, dma_len, length, 1, a.got,
         [a EXCEPT !.list = list_put(@, a.iod.npages, a.got),
                   !.iod.npages = @ + 1,
                   !.mem[a.got][0] = a.mem[old_prp_list][i - 1],
                   !.mem[old_prp_list][i - 1] = a.got])

prps_loop(pool, sg, dma_addr, dma_len, length, i, prp_list, p) ==
  IF i = PrpsPerPage
  THEN prps_chain(pool, sg, dma_addr, dma_len, length, i, prp_list,
                  dma_pool_alloc(pool, p))
  ELSE prps_store(pool, sg, dma_addr, dma_len, length, i, prp_list, p)

\* The first list page: on NULL the builder gives up with
\* BLK_STS_RESOURCE, otherwise list[0] and first_dma name it.
prps_first(pool, sg, dma_addr, dma_len, length, a) ==
  IF a.got = 0
  THEN [a EXCEPT !.iod.first_dma = dma_addr, !.iod.npages = -1,
                 !.ret = "resource"]
  ELSE prps_loop(pool, sg, dma_addr, dma_len, length, 0, a.got,
                 [a EXCEPT !.list = list_put(@, 0, a.got),
                           !.iod.first_dma = a.got])

\* The choice of the pool by the number of pointers needed.
prps_pool(nprps) == IF nprps <= SmallPrps THEN "small" ELSE "page"

\* From the second pointer on: one more page fits in prp2, anything longer
\* takes a list.
prps_second(sg, dma_addr, dma_len, length, p) ==
  IF length <= NVME_CTRL_PAGE_SIZE
  THEN prps_done([p EXCEPT !.iod.first_dma = dma_addr])
  ELSE prps_first(
         prps_pool((length + NVME_CTRL_PAGE_SIZE - 1)
                     \div NVME_CTRL_PAGE_SIZE),
         sg, dma_addr, dma_len, length,
         dma_pool_alloc(
           prps_pool((length + NVME_CTRL_PAGE_SIZE - 1)
                       \div NVME_CTRL_PAGE_SIZE),
           [p EXCEPT !.iod.npages =
              IF prps_pool((length + NVME_CTRL_PAGE_SIZE - 1)
                             \div NVME_CTRL_PAGE_SIZE) = "small"
              THEN 0 ELSE 1]))

\* The step past the first page: the rest of the first entry, or the next
\* entry when the first one ends with the page.
prps_advance(first_len, length, p) ==
  IF sg_dma_len(p, 1) - first_len # 0
  THEN prps_second(1, sg_dma_address(p, 1) + first_len,
                   sg_dma_len(p, 1) - first_len, length, p)
  ELSE IF sg_next(p, 1) = 0 THEN prps_oops(p)
  ELSE prps_second(sg_next(p, 1), sg_dma_address(p, sg_next(p, 1)),
                   sg_dma_len(p, sg_next(p, 1)), length, p)

\* apple_nvme_setup_prps.
apple_nvme_setup_prps(p) ==
  IF p.length - (NVME_CTRL_PAGE_SIZE
                   - page_offset(sg_dma_address(p, 1))) <= 0
  THEN prps_done([p EXCEPT !.iod.first_dma = 0])
  ELSE prps_advance(
         NVME_CTRL_PAGE_SIZE - page_offset(sg_dma_address(p, 1)),
         p.length - (NVME_CTRL_PAGE_SIZE
                       - page_offset(sg_dma_address(p, 1))),
         p)

\* dma_map_bvec of the request's only segment: the page's bus address plus
\* the offset into it; a mapping error leaves the iod as it was.
dma_map_bvec(bv) == bv.page + bv.offset

\* A simple mapping whose second pointer is always one page past the first.
setup_prp_simple_whole_page(map_ok, p) ==
  IF ~map_ok THEN [p EXCEPT !.ret = "resource"]
  ELSE [p EXCEPT !.iod.first_dma = dma_map_bvec(p.frags[1]),
                 !.iod.dma_len = p.frags[1].len,
                 !.cmd.prp1 = dma_map_bvec(p.frags[1]),
                 !.cmd.prp2 = dma_map_bvec(p.frags[1]) + NVME_CTRL_PAGE_SIZE,
                 !.ret = "ok"]

\* apple_nvme_setup_prp_simple: prp1 is the segment, prp2 the page after
\* the one prp1 lies in when the segment reaches into it.
apple_nvme_setup_prp_simple(map_ok, p) ==
  IF ~map_ok THEN [p EXCEPT !.ret = "resource"]
  ELSE [p EXCEPT !.iod.first_dma = dma_map_bvec(p.frags[1]),
                 !.iod.dma_len = p.frags[1].len,
                 !.cmd.prp1 = dma_map_bvec(p.frags[1]),
                 !.cmd.prp2 =
                    IF p.frags[1].len >
                         NVME_CTRL_PAGE_SIZE
                           - page_offset(p.frags[1].offset)
                    THEN dma_map_bvec(p.frags[1])
                           + (NVME_CTRL_PAGE_SIZE
                                - page_offset(p.frags[1].offset))
                    ELSE @,
                 !.ret = "ok"]

\* apple_nvme_map_data after setup_prps: on any status but OK the list is
\* unmapped and iod->sg goes back to the mempool. A context that died in
\* the builder does nothing more.
map_data_end(b) ==
  IF b.ret \in {"ok", "oops"} THEN b ELSE mempool_free_sg(b)

\* apple_nvme_map_data with the scatterlist: mempool_alloc, blk_rq_map_sg,
\* dma_map_sg_attrs (nr_mapped = 0 when it fails), apple_nvme_setup_prps.
map_data_sg(sg_ok, map_ok, p) ==
  IF ~sg_ok \/ p.sg_free = 0 THEN [p EXCEPT !.ret = "resource"]
  ELSE IF ~map_ok
  THEN mempool_free_sg([p EXCEPT !.sg_free = @ - 1, !.iod.sg = TRUE,
                                 !.iod.nents = Len(p.frags),
                                 !.ret = "resource"])
  ELSE map_data_end(
         apple_nvme_setup_prps([p EXCEPT !.sg_free = @ - 1, !.iod.sg = TRUE,
                                         !.iod.nents = Len(p.frags)]))

\* apple_nvme_map_data.
apple_nvme_map_data(sg_ok, map_ok, p) ==
  IF Len(p.frags) = 1
     /\ p.frags[1].offset + p.frags[1].len <= NVME_CTRL_PAGE_SIZE * 2
  THEN apple_nvme_setup_prp_simple(map_ok, p)
  ELSE map_data_sg(sg_ok, map_ok, [p EXCEPT !.iod.dma_len = 0])

\* A metadata failure that returns without the label out_unmap_data is
\* queue_rq_metadata_no_unmap.
\* apple_nvme_map_metadata and the label out_unmap_data of
\* apple_nvme_queue_rq: meta is "none" for a request without integrity
\* data, "ok" or "fail" for the outcome of mapping it.
queue_rq_metadata_no_unmap(meta, p) ==
  IF p.ret = "ok" /\ meta = "fail" THEN [p EXCEPT !.ret = "ioerr"] ELSE p

queue_rq_metadata(meta, p) ==
  IF p.ret = "ok" /\ meta = "fail"
  THEN [apple_nvme_unmap_data(p) EXCEPT !.ret = "ioerr"]
  ELSE p

\* The mapping part of apple_nvme_queue_rq: the iod is reset, the data and
\* the metadata are mapped.
queue_rq_map(budget, sg_ok, map_ok, meta, p) ==
  queue_rq_metadata(meta,
    apple_nvme_map_data(sg_ok, map_ok,
      [p EXCEPT !.iod.npages = -1, !.iod.nents = 0, !.budget = budget]))

\* The request is over for the driver: nothing of it may be held any more.
prp_ended(p) == [p EXCEPT !.pc = "ended"]

\* --------------------------------------------------------------- submission

\* nvme_check_ready(ctrl, req, true): a live controller takes everything;
\* otherwise only the driver's own commands on the admin queue pass (file
\* system requests and user passthrough are refused).
nvme_check_ready(internal, m) == m.ctrl_state = "live" \/ internal

\* nvme_setup_cmd: the command of the request, its command_id the tag
\* (NVME_QUIRK_SKIP_CID_GEN: no generation counter in the id).
nvme_setup_cmd(tag, c) ==
  [opcode |-> c.opcode, command_id |-> tag, prp1 |-> c.prp1, prp2 |-> c.prp2,
   length |-> c.length, cdw10 |-> c.cdw10]

\* blk_mq_start_request on a request nvme_setup_cmd has cleared.
blk_mq_start_request(q, tag, m) ==
  [m EXCEPT !.rq[q][tag].state = "in_flight", !.rq[q][tag].status = "none",
            !.rq[q][tag].cancelled = FALSE,
            !.hist.timedout[q] = @ \ {tag}]

\* An end_io that frees the abort request and keeps its budget.
abort_endio_keep(m) == m

\* apple_abort_endio: the abort command is over, its budget returns.
apple_abort_endio(m) == [m EXCEPT !.abort_limit = @ + 1]

\* blk_end_sync_rq: the reset work waiting in nvme_submit_sync_cmd is woken
\* with the status of its command, or with -EINTR when the request carries
\* NVME_REQ_CANCELLED.
blk_end_sync_rq(q, tag, m) ==
  IF m.reset_work = "wait"
  THEN [m EXCEPT !.reset_work = IF m.rq[q][tag].status = "ok"
                                   /\ ~m.rq[q][tag].cancelled
                                THEN "ok" ELSE "failed"]
  ELSE m

\* blk_mq_end_request of a request the driver refused (queue_rq returned an
\* error): its end_io runs, it was never started. status "ioerr" is
\* BLK_STS_IOERR, the hard failure blk-mq ends the request with.
end_refused(q, tag, status, m) ==
  LET r == [m EXCEPT !.rq[q][tag].status = status]
      e == CASE r.rq[q][tag].end_io = "abort_endio" -> apple_abort_endio(r)
             [] r.rq[q][tag].end_io = "sync" -> blk_end_sync_rq(q, tag, r)
             [] OTHER -> r
  IN [e EXCEPT !.rq[q][tag].end_io = "none"]

\* apple_nvme_queue_rq for the request of (q, tag) carrying command c.
apple_nvme_queue_rq(q, tag, c, internal, m) ==
  LET m0 == [m EXCEPT !.rq[q][tag].aborted = 0] IN
  IF ~m0.enabled[q] THEN end_refused(q, tag, "ioerr", m0)
  ELSE IF ~nvme_check_ready(internal, m0) THEN end_refused(q, tag, "error", m0)
  ELSE apple_nvme_submit_cmd(q, nvme_setup_cmd(tag, c),
                             blk_mq_start_request(q, tag, m0))

\* apple_nvme_queue_rq for a request with data, after the mapping mp of
\* its data: the command goes out with the pointers of the mapping, or the
\* request ends with the status of the failed mapping.
queue_rq_mapped(q, tag, c, mp, m) ==
  IF mp.ret = "ok"
  THEN apple_nvme_queue_rq(q, tag,
         [c EXCEPT !.prp1 = mp.cmd.prp1, !.prp2 = mp.cmd.prp2,
                   !.length = mp.length],
         FALSE, [m EXCEPT !.prp = [mp EXCEPT !.pc = "mapped", !.tag = tag]])
  ELSE IF mp.ret = "oops"
  THEN [m EXCEPT !.prp = [mp EXCEPT !.pc = "oops", !.tag = tag]]
  ELSE end_refused(q, tag, mp.ret,
         [m EXCEPT !.prp = [prp_ended(mp) EXCEPT !.tag = tag]])

\* apple_nvme_queue_rq for a request with data: the flag and readiness
\* tests come before the mapping.
queue_rq_data(q, tag, c, budget, sg_ok, map_ok, meta, m) ==
  IF ~m.enabled[q] \/ ~nvme_check_ready(FALSE, m)
  THEN apple_nvme_queue_rq(q, tag, c, FALSE, m)
  ELSE queue_rq_mapped(q, tag, c,
         queue_rq_map(budget, sg_ok, map_ok, meta, m.prp), m)

\* apple_nvme_submit_async_event: the AEN command goes out with command id
\* NVME_AQ_BLK_MQ_DEPTH and no request behind it.
apple_nvme_submit_async_event(m) ==
  [apple_nvme_submit_cmd("admin",
      [opcode |-> nvme_admin_async_event, command_id |-> NVME_AQ_BLK_MQ_DEPTH,
       prp1 |-> 0, prp2 |-> 0, length |-> 0, cdw10 |-> 0], m)
   EXCEPT !.aen_out = TRUE]

\* The commands blk-mq hands in: opcode by queue, a data pointer and length.
Cmds(q) == [opcode : IF q = "admin" THEN AdminOpcodes ELSE IoOpcodes,
            prp1 : {1}, prp2 : {0}, length : {0}, cdw10 : {0}]

\* The block softirq: mq_ops->complete of one request whose state is
\* COMPLETE (apple_nvme_common_complete_rq, nvme_complete_rq, end_io). The
\* request is free afterwards; of its fields the model keeps the status it
\* completed with.
apple_nvme_common_complete_rq(q, tag, m) ==
  LET e == CASE m.rq[q][tag].end_io = "abort_endio" -> apple_abort_endio(m)
             [] m.rq[q][tag].end_io = "sync" -> blk_end_sync_rq(q, tag, m)
             [] OTHER -> m
  IN [e EXCEPT !.rq[q][tag] = [IdleRq EXCEPT !.status = m.rq[q][tag].status],
               !.prp = IF m.prp.pc = "mapped" /\ q = "io" /\ m.prp.tag = tag
                       THEN prp_ended(apple_nvme_unmap_data(m.prp))
                       ELSE @]

\* ------------------------------------------------------- controller state

\* nvme_change_ctrl_state: the transitions the controller state machine
\* admits; the state is left alone when the change is refused.
nvme_ctrl_state_allowed(old, new) ==
  CASE new = "live" -> old \in {"new", "resetting", "connecting"}
    [] new = "resetting" -> old \in {"new", "live"}
    [] new = "connecting" -> old \in {"new", "resetting"}
    [] new = "deleting" -> old \in {"live", "resetting", "connecting"}
    [] OTHER -> FALSE

nvme_change_ctrl_state(new, m) ==
  IF nvme_ctrl_state_allowed(m.ctrl_state, new)
  THEN [m EXCEPT !.ctrl_state = new] ELSE m

\* nvme_reset_ctrl: state RESETTING, then queue_work of the reset work.
nvme_reset_ctrl(m) ==
  IF nvme_ctrl_state_allowed(m.ctrl_state, "resetting")
  THEN [m EXCEPT !.ctrl_state = "resetting",
                 !.reset_work = IF @ = "idle" THEN "queued" ELSE @]
  ELSE m

\* nvme_disable_ctrl (CC.EN = 0, wait for RDY = 0): the controller resets,
\* forgets the commands it held and leaves fatal state.
nvme_disable_ctrl(m) ==
  [m EXCEPT !.cc_enable = FALSE, !.csts_rdy = FALSE, !.csts_cfs = FALSE,
            !.sq_db = [q \in Queues |-> {}]]

\* nvme_shutdown_ctrl (CC.SHN, wait for CSTS.SHST): the controller stops
\* taking commands; the model keeps that in the RDY bit.
nvme_shutdown_ctrl(m) ==
  [m EXCEPT !.csts_rdy = FALSE, !.sq_db = [q \in Queues |-> {}]]

\* nvme_enable_ctrl (CC.EN = 1, wait for RDY = 1).
nvme_enable_ctrl(m) == [m EXCEPT !.cc_enable = TRUE, !.csts_rdy = TRUE]

\* nvme_stop_queues / nvme_start_queues: the queues of the I/O tag set.
nvme_stop_queues(m) == [m EXCEPT !.stopped["io"] = TRUE]
nvme_start_queues(m) == [m EXCEPT !.stopped["io"] = FALSE]

\* blk_mq_unquiesce_queue(dev->ctrl.admin_q).
unquiesce_admin(m) == [m EXCEPT !.stopped["admin"] = FALSE]

\* ---------------------------------------------------------- queue lifecycle

\* apple_nvme_alloc_queue: fresh zeroed coherent memory for the completion
\* ring, the TCB table and the submission ring; head 0, phase 1; the queue
\* count goes up. hist.nalloc counts the allocations; hist.lost keeps the
\* queues whose pointers to live memory were overwritten by new ones.
apple_nvme_alloc_queue(q, m) ==
  [m EXCEPT !.q_mem[q] = "live", !.cqes[q] = ZeroRing(q),
            !.tcb[q] = ZeroTable, !.sq_cmds[q] = ZeroSq,
            !.cq_head[q] = 0, !.cq_phase[q] = 1,
            !.queue_count = @ + 1,
            !.hist.nalloc[q] = @ + 1,
            !.hist.lost = @ \cup (IF m.q_mem[q] = "live" THEN {q} ELSE {})]

\* An initialisation that starts the queue with phase 0.
init_queue_phase_zero(q, m) ==
  [m EXCEPT !.cq_head[q] = 0, !.cq_phase[q] = 0, !.cqes[q] = ZeroRing(q),
            !.hist.unreaped[q] = 0, !.hist.consumed[q] = 0]

\* apple_nvme_init_queue.
apple_nvme_init_queue(q, m) ==
  [m EXCEPT !.cq_head[q] = 0, !.cq_phase[q] = 1, !.cqes[q] = ZeroRing(q),
            !.hist.unreaped[q] = 0, !.hist.consumed[q] = 0]

\* apple_nvme_free_queue: the memory of the queue goes back to the allocator;
\* the pointers in the queue stay as they are.
apple_nvme_free_queue(q, m) == [m EXCEPT !.q_mem[q] = "freed"]

\* A suspend that clears the enabled flag and leaves the queue online.
suspend_queue_keep_online(q, m) ==
  IF ~m.enabled[q] THEN m
  ELSE [m EXCEPT !.enabled[q] = FALSE,
                 !.stopped["admin"] = IF q = "admin" THEN TRUE ELSE @]

\* apple_nvme_suspend_queue.
apple_nvme_suspend_queue(q, m) ==
  IF ~m.enabled[q] THEN m
  ELSE [m EXCEPT !.enabled[q] = FALSE,
                 !.stopped["admin"] = IF q = "admin" THEN TRUE ELSE @,
                 !.online[q] = FALSE]

\* apple_nvme_dev_add: the first run makes the I/O tag set; every later run
\* frees the queue dev->ioq points to and takes it off the queue count.
apple_nvme_dev_add(m) ==
  IF ~m.has_tagset
  THEN [m EXCEPT !.has_tagset = TRUE]
  ELSE [apple_nvme_free_queue("io", m) EXCEPT !.queue_count = @ - 1]

\* ------------------------------------------------ the driver's own commands

\* Tags of the admin tag set no request holds.
admin_free_tags(m) ==
  {t \in AdminTags : m.rq["admin"][t].state = "idle"
                     /\ m.rq["admin"][t].end_io = "none"}

LowestTag(S) == CHOOSE t \in S : \A u \in S : t <= u

\* The tag nvme_alloc_request hands out on the admin queue.
admin_tag(m) == LowestTag(admin_free_tags(m))

\* blk_execute_rq_nowait of a command of the driver on the admin queue,
\* with its end_io: the request takes tag t and, unless the queue is
\* quiesced, is dispatched at once.
admin_execute(t, cmd, end_io, m) ==
  IF m.stopped["admin"]
  THEN [m EXCEPT !.rq["admin"][t].end_io = end_io]
  ELSE apple_nvme_queue_rq("admin", t, cmd, TRUE,
                           [m EXCEPT !.rq["admin"][t].end_io = end_io])

\* The command the reset work and its helpers send and wait for.
admin_cmd(opcode, cdw10) ==
  [opcode |-> opcode, prp1 |-> 0, prp2 |-> 0, length |-> 0, cdw10 |-> cdw10]

\* The controller answers the command with tag t; the interrupt and the
\* softirq deliver the completion to the waiter.
admin_round_trip(t, s) ==
  apple_nvme_common_complete_rq("admin", t,
    apple_nvme_irq(device_post("admin", t, s)))

\* nvme_submit_sync_cmd of a command the controller answers before the
\* caller goes on (s is the state after the submit, m the one before).
sync_answered(t, m, s) ==
  IF device_can_post("admin", t, s) THEN admin_round_trip(t, s) ELSE m

sync_admin_cmd(opcode, m) ==
  IF admin_free_tags(m) = {} THEN m
  ELSE sync_answered(admin_tag(m), m,
         admin_execute(admin_tag(m), admin_cmd(opcode, 0), "none", m))

\* ------------------------------------------------------------ device disable

\* __apple_nvme_disable_io_queues(dev, opcode): the delete command goes out
\* on the admin queue (nvme_alloc_request with BLK_MQ_REQ_NOWAIT) and the
\* caller waits for delete_done up to the admin timeout. answered says
\* whether the controller answers within that time; a command it does not
\* answer stays in flight.
delete_queue_wait(t, answered, s) ==
  IF s.rq["admin"][t].state = "in_flight" /\ answered
     /\ device_can_post("admin", t, s)
  THEN admin_round_trip(t, s)
  ELSE s

apple_nvme_delete_queue(opcode, answered, m) ==
  IF ~m.online["io"] \/ admin_free_tags(m) = {} THEN m
  ELSE delete_queue_wait(admin_tag(m), answered,
         admin_execute(admin_tag(m), admin_cmd(opcode, 1), "del_queue_end",
                       m))

\* The value __apple_nvme_disable_io_queues returns for that run.
delete_queue_done(opcode, answered, m) ==
  \/ ~m.online["io"]
  \/ /\ admin_free_tags(m) # {}
     /\ apple_nvme_delete_queue(opcode, answered, m)
          .rq["admin"][admin_tag(m)].end_io = "none"

\* apple_nvme_disable_io_queues: delete the submission queue and, if that
\* was answered, the completion queue.
disable_io_queues_cq(answered, sq_done, a) ==
  IF sq_done THEN apple_nvme_delete_queue(nvme_admin_delete_cq, answered, a)
  ELSE a

apple_nvme_disable_io_queues(answered, m) ==
  disable_io_queues_cq(answered,
    delete_queue_done(nvme_admin_delete_sq, answered, m),
    apple_nvme_delete_queue(nvme_admin_delete_sq, answered, m))

\* apple_nvme_disable_admin_queue: shut down or disable the controller, then
\* apple_nvme_poll_irqdisable(dev->adminq).
apple_nvme_disable_admin_queue(shutdown, m) ==
  nvme_process_cq("admin",
    IF shutdown THEN nvme_shutdown_ctrl(m) ELSE nvme_disable_ctrl(m))

\* nvme_cancel_request: a request that is not completed yet gets the status
\* NVME_SC_HOST_ABORTED_CMD and NVME_REQ_CANCELLED and is completed.
nvme_cancel_request(q, tag, m) ==
  IF m.rq[q][tag].state # "in_flight" THEN m
  ELSE [m EXCEPT !.rq[q][tag].state = "complete",
                 !.rq[q][tag].status = "host_aborted",
                 !.rq[q][tag].cancelled = TRUE]

\* blk_mq_tagset_busy_iter(set, nvme_cancel_request): every started request.
RECURSIVE cancel_tagset(_, _, _)
cancel_tagset(q, S, m) ==
  IF S = {} THEN m
  ELSE cancel_tagset(q, S \ {LowestTag(S)},
                     nvme_cancel_request(q, LowestTag(S), m))

\* blk_mq_tagset_wait_completed_request: the softirq completes every
\* request that is in state COMPLETE.
wait_completed_one(q, t, m) ==
  IF m.rq[q][t].state = "complete"
  THEN apple_nvme_common_complete_rq(q, t, m) ELSE m

RECURSIVE wait_completed(_, _, _)
wait_completed(q, S, m) ==
  IF S = {} THEN m
  ELSE wait_completed(q, S \ {LowestTag(S)},
                      wait_completed_one(q, LowestTag(S), m))

\* apple_nvme_dev_disable, first part: on a controller that answers (CSTS
\* ready and not fatal) delete the I/O queues and disable the controller.
dev_disable_ctrl(shutdown, answered, s) ==
  IF ~(s.csts_cfs \/ ~s.csts_rdy) /\ s.queue_count > 0
  THEN apple_nvme_disable_admin_queue(shutdown,
         apple_nvme_disable_io_queues(answered, s))
  ELSE s

\* Second part: suspend the I/O queue if it is online, then the admin queue.
dev_disable_suspend(d) ==
  apple_nvme_suspend_queue("admin",
    IF d.online["io"] THEN apple_nvme_suspend_queue("io", d) ELSE d)

\* The parts up to the drain, after nvme_stop_queues.
\* mutex_lock / mutex_unlock / mutex_trylock on dev->shutdown_lock. A lock
\* on the held mutex never returns: the lock is marked "deadlock" for good.
mutex_lock(m) ==
  [m EXCEPT !.shutdown_lock = IF @ = "free" THEN "held" ELSE "deadlock"]

mutex_unlock(m) ==
  [m EXCEPT !.shutdown_lock = IF @ = "held" THEN "free" ELSE @]

mutex_trylock(m) == m.shutdown_lock = "free"

dev_disable_quiesce(shutdown, answered, m) ==
  dev_disable_suspend(dev_disable_ctrl(shutdown, answered,
                                       nvme_stop_queues(mutex_lock(m))))

\* Third part: the drain of the I/O completion ring.
dev_disable_drain(s) ==
  IF s.queue_count > 1 THEN nvme_process_cq("io", s) ELSE s

\* Last part: restart the queues when shutting down.
dev_disable_restart(shutdown, w) ==
  IF shutdown THEN unquiesce_admin(nvme_start_queues(w)) ELSE w

\* Fourth part: cancel both tag sets, wait for the completions.
dev_disable_cancel(shutdown, m) ==
  mutex_unlock(
    dev_disable_restart(shutdown,
      wait_completed("admin", AdminTags,
        wait_completed("io", IoTags,
          cancel_tagset("admin", AdminTags,
            cancel_tagset("io", IoTags, m))))))

\* apple_nvme_dev_disable from lock to unlock.
apple_nvme_dev_disable(shutdown, answered, m) ==
  dev_disable_cancel(shutdown,
    dev_disable_drain(dev_disable_quiesce(shutdown, answered, m)))

\* apple_nvme_remove_dead_ctrl.
remove_dead_ctrl_kill(d) ==
  [unquiesce_admin(nvme_start_queues(d)) EXCEPT !.remove_work = TRUE]

apple_nvme_remove_dead_ctrl(answered, m) ==
  remove_dead_ctrl_kill(
    apple_nvme_dev_disable(FALSE, answered,
                           nvme_change_ctrl_state("deleting", m)))

\* ------------------------------------------------------------------ timeout

\* apple_nvme_should_reset with the CSTS value the handler read.
apple_nvme_should_reset(m) ==
  /\ m.ctrl_state \notin {"resetting", "connecting"}
  /\ m.csts_cfs

\* What the handler returned and by which branch (tmo.ret, tmo.act).
timeout_return(q, tag, ret, act, m) ==
  [m EXCEPT !.tmo = [pc |-> "idle", q |-> q, tag |-> tag, ret |-> ret,
                     act |-> act],
            !.hist.timedout[q] =
               IF ret = "reset_timer" /\ m.ctrl_state = "live"
               THEN @ \cup {tag} ELSE @]

\* After apple_nvme_poll_irqdisable: blk_mq_request_completed(req).
timeout_polled(q, tag, p) ==
  IF p.rq[q][tag].state = "complete"
  THEN timeout_return(q, tag, "done", "polled", p)
  ELSE [p EXCEPT !.tmo = [pc |-> "polled", q |-> q, tag |-> tag,
                          ret |-> "none", act |-> "none"]]

\* A handler whose fatal branch disables the device and schedules nothing.
timeout_poll_no_reset(q, tag, answered, m) ==
  IF apple_nvme_should_reset(m)
  THEN timeout_return(q, tag, "done", "fatal",
         apple_nvme_dev_disable(FALSE, answered, m))
  ELSE timeout_polled(q, tag, nvme_process_cq(q, m))

\* apple_nvme_timeout up to the check of the poll: reset at once on a
\* controller in fatal state, else poll the queue of the request and see
\* whether that completed it.
\* A handler that looks at the request without polling its queue.
timeout_poll_no_drain(q, tag, answered, m) ==
  IF apple_nvme_should_reset(m)
  THEN timeout_return(q, tag, "done", "fatal",
         nvme_reset_ctrl(apple_nvme_dev_disable(FALSE, answered, m)))
  ELSE timeout_polled(q, tag, m)

timeout_poll(q, tag, answered, m) ==
  IF apple_nvme_should_reset(m)
  THEN timeout_return(q, tag, "done", "fatal",
         nvme_reset_ctrl(apple_nvme_dev_disable(FALSE, answered, m)))
  ELSE timeout_polled(q, tag, nvme_process_cq(q, m))

\* An abort that keeps the budget it took when no admin request is free.
timeout_abort_send_keep_budget(q, tag, d) ==
  IF admin_free_tags(d) = {}
  THEN timeout_return(q, tag, "reset_timer", "no_request", d)
  ELSE timeout_return(q, tag, "reset_timer", "abort",
         admin_execute(admin_tag(d), admin_cmd(nvme_admin_abort_cmd, tag),
                       "abort_endio", d))

\* The abort command of the handler: nvme_alloc_request on the admin queue
\* without waiting, then blk_execute_rq_nowait with apple_abort_endio. d is
\* the state with the budget taken and iod->aborted set.
timeout_abort_send(q, tag, d) ==
  IF admin_free_tags(d) = {}
  THEN timeout_return(q, tag, "reset_timer", "no_request",
                      [d EXCEPT !.abort_limit = @ + 1])
  ELSE timeout_return(q, tag, "reset_timer", "abort",
         admin_execute(admin_tag(d), admin_cmd(nvme_admin_abort_cmd, tag),
                       "abort_endio", d))

\* A handler that sends the abort without marking the request aborted.
timeout_abort_no_mark(q, tag, m) ==
  IF m.abort_limit - 1 < 0
  THEN timeout_return(q, tag, "reset_timer", "no_budget", m)
  ELSE timeout_abort_send(q, tag, [m EXCEPT !.abort_limit = @ - 1])

\* A handler that keeps what it took from a budget that was used up.
timeout_abort_budget_lost(q, tag, m) ==
  IF m.abort_limit - 1 < 0
  THEN timeout_return(q, tag, "reset_timer", "no_budget",
                      [m EXCEPT !.abort_limit = @ - 1])
  ELSE timeout_abort_send(q, tag,
         [m EXCEPT !.abort_limit = @ - 1, !.rq[q][tag].aborted = 1])

timeout_abort(q, tag, m) ==
  IF m.abort_limit - 1 < 0
  THEN timeout_return(q, tag, "reset_timer", "no_budget", m)
  ELSE timeout_abort_send(q, tag,
         [m EXCEPT !.abort_limit = @ - 1, !.rq[q][tag].aborted = 1])

\* A handler that marks the request cancelled and leaves the device alone.
timeout_disable_none(q, tag, shutdown, answered, m) ==
  [m EXCEPT !.rq[q][tag].cancelled = TRUE]

\* A handler that disables the device without marking the request.
timeout_disable_no_mark(q, tag, shutdown, answered, m) ==
  apple_nvme_dev_disable(shutdown, answered, m)

\* NVME_REQ_CANCELLED on the request, then apple_nvme_dev_disable.
timeout_disable(q, tag, shutdown, answered, m) ==
  apple_nvme_dev_disable(shutdown, answered,
                         [m EXCEPT !.rq[q][tag].cancelled = TRUE])

\* A handler that treats the admin queue like the I/O queue: abort first.
timeout_switch_abort_first(q, tag, answered, m) ==
  IF m.rq[q][tag].aborted = 1
  THEN timeout_return(q, tag, "done", "reset",
         nvme_reset_ctrl(timeout_disable(q, tag, FALSE, answered, m)))
  ELSE timeout_abort(q, tag, m)

\* A handler that treats RESETTING like CONNECTING and DELETING.
timeout_switch_no_rearm(q, tag, answered, m) ==
  CASE m.ctrl_state \in {"connecting", "deleting", "resetting"} ->
         timeout_return(q, tag, "done", "disable",
           timeout_disable(q, tag, TRUE, answered,
                           nvme_change_ctrl_state("deleting", m)))
    [] OTHER ->
         IF q = "admin" \/ m.rq[q][tag].aborted = 1
         THEN timeout_return(q, tag, "done", "reset",
                nvme_reset_ctrl(timeout_disable(q, tag, FALSE, answered, m)))
         ELSE timeout_abort(q, tag, m)

\* apple_nvme_timeout from the switch on the controller state to the end.
timeout_switch(q, tag, answered, m) ==
  CASE m.ctrl_state \in {"connecting", "deleting"} ->
         timeout_return(q, tag, "done", "disable",
           timeout_disable(q, tag, TRUE, answered,
                           nvme_change_ctrl_state("deleting", m)))
    [] m.ctrl_state = "resetting" ->
         timeout_return(q, tag, "reset_timer", "rearm", m)
    [] OTHER ->
         IF q = "admin" \/ m.rq[q][tag].aborted = 1
         THEN timeout_return(q, tag, "done", "reset",
                nvme_reset_ctrl(timeout_disable(q, tag, FALSE, answered, m)))
         ELSE timeout_abort(q, tag, m)

timeout_decide(answered, m) == timeout_switch(m.tmo.q, m.tmo.tag, answered, m)

\* --------------------------------------------------------------- reset work

\* apple_nvme_configure_admin_queue with a controller that answers.
apple_nvme_configure_admin_queue(m) ==
  [apple_nvme_init_queue("admin",
     device_queue_reset("admin",
       nvme_enable_ctrl(
         apple_nvme_alloc_queue("admin", nvme_disable_ctrl(m)))))
   EXCEPT !.online["admin"] = TRUE, !.enabled["admin"] = TRUE]

\* The identify of nvme_init_ctrl_finish goes out; the work waits for it.
reset_work_identify(c) ==
  admin_execute(admin_tag(c),
                admin_cmd(CHOOSE x \in AdminOpcodes : TRUE, 0), "sync",
                [c EXCEPT !.reset_work = "wait"])

\* If the controller was enabled, shut it down first.
reset_work_disable(answered, n) ==
  IF n.ctrl_state = "resetting" /\ n.cc_enable
  THEN apple_nvme_dev_disable(FALSE, answered, n) ELSE n

\* A reset work whose failure exits all leave by the label out, the lock
\* still held.
reset_work_configure_out(up, answered, resetting, d) ==
  IF ~resetting
  THEN apple_nvme_remove_dead_ctrl(answered, d)
  ELSE IF ~up
  THEN apple_nvme_remove_dead_ctrl(answered,
         [mutex_lock(d) EXCEPT !.cc_enable = FALSE])
  ELSE reset_work_identify(
         nvme_change_ctrl_state("connecting",
           mutex_unlock(
             unquiesce_admin(
               apple_nvme_configure_admin_queue(mutex_lock(d))))))

\* The admin queue comes up (configure, admin tags, CONNECTING, identify) or
\* the work gives the controller up: it was not RESETTING, or the controller
\* does not answer the disable / enable handshake (up).
reset_work_configure(up, answered, resetting, d) ==
  IF ~resetting
  THEN apple_nvme_remove_dead_ctrl(answered, d)
  ELSE IF ~up
  THEN apple_nvme_remove_dead_ctrl(answered,
         mutex_unlock([mutex_lock(d) EXCEPT !.cc_enable = FALSE]))
  ELSE reset_work_identify(
         nvme_change_ctrl_state("connecting",
           mutex_unlock(
             unquiesce_admin(
               apple_nvme_configure_admin_queue(mutex_lock(d))))))

\* apple_nvme_reset_work up to the first command it waits for.
reset_work_begin(up, answered, m) ==
  reset_work_configure(up, answered, m.ctrl_state = "resetting",
    reset_work_disable(answered,
      [m EXCEPT !.hist.nreset = @ + 1, !.reset_work = "idle"]))

\* apple_nvme_create_io_queue with a controller that answers.
create_io_queue_online(c) ==
  IF ~mutex_trylock(c) THEN c
  ELSE IF c.ctrl_state # "connecting" THEN mutex_unlock(mutex_lock(c))
  ELSE mutex_unlock(
         [apple_nvme_init_queue("io", device_queue_reset("io", mutex_lock(c)))
            EXCEPT !.online["io"] = TRUE, !.enabled["io"] = TRUE])

apple_nvme_create_io_queue(m) ==
  create_io_queue_online(
    sync_admin_cmd(nvme_admin_create_sq,
      sync_admin_cmd(nvme_admin_create_cq,
        apple_nvme_alloc_queue("io", m))))

\* The identify is finished (abort_limit), the queue count is set, the I/O
\* queue is created.
reset_work_io(n) ==
  apple_nvme_create_io_queue(
    sync_admin_cmd(CHOOSE x \in AdminOpcodes : TRUE,
                   [n EXCEPT !.abort_limit = AbortLimit]))

\* With the I/O queue online: add the device, go LIVE, start the controller;
\* otherwise remove the controller.
reset_work_finish(answered, failed, c) ==
  IF failed \/ ~c.online["io"]
  THEN apple_nvme_remove_dead_ctrl(answered, c)
  ELSE [nvme_change_ctrl_state("live",
          apple_nvme_dev_add(nvme_start_queues(c)))
        EXCEPT !.aen_work = TRUE]

reset_work_steps(failed, n) == IF failed THEN n ELSE reset_work_io(n)

\* apple_nvme_reset_work after its identify returned.
reset_work_end(ok, answered, m) ==
  reset_work_finish(answered, m.reset_work = "failed" \/ ~ok,
    reset_work_steps(m.reset_work = "failed" \/ ~ok,
                     [m EXCEPT !.reset_work = "idle"]))

\* ------------------------------------------------------------------ actions

\* blk-mq dispatches a file system or user request to the driver
\* (.queue_rq) on a queue that is not quiesced; the tag is a free one.
Submit(q, tag, c, budget) ==
  /\ rq[q][tag].state = "idle"
  /\ rq[q][tag].end_io = "none"
  /\ ~(tmo.pc # "idle" /\ tmo.q = q /\ tmo.tag = tag)
  /\ budget
  /\ q_mem[q] # "none"
  /\ ~stopped[q]
  /\ Commit(apple_nvme_queue_rq(q, tag, c, FALSE,
                                [Cur EXCEPT !.hist.nsubmit[q] = @ + 1]))

\* nvme_async_event_work: a live controller submits the queued AEN.
SubmitAsyncEvent(budget) ==
  /\ aen_work
  /\ ctrl_state = "live"
  /\ budget
  /\ Commit(apple_nvme_submit_async_event(
              [Cur EXCEPT !.aen_work = FALSE,
                          !.hist.nsubmit["admin"] = @ + 1]))

\* The device answers one command: it writes the entry at its tail with
\* its phase bit and advances; it never overruns the head it was told.
DevicePost(q, tag) ==
  /\ device_can_post(q, tag, Cur)
  /\ Commit(device_post(q, tag, Cur))

\* The block softirq completes one request.
SoftirqDone(q, tag) ==
  /\ rq[q][tag].state = "complete"
  /\ Commit(apple_nvme_common_complete_rq(q, tag, Cur))

\* nvme_process_cq one loop iteration at a time (one drain at a time).
ReapStep(q) ==
  /\ drain.q \in {"none", q}
  /\ online[q]
  /\ apple_nvme_cqe_pending(q, Cur)
  /\ Commit(reap_one(q, [Cur EXCEPT !.drain.q = q]))

\* The loop of nvme_process_cq ends: doorbell, return.
ReapEnd(q) ==
  /\ drain.q = q
  /\ ~apple_nvme_cqe_pending(q, Cur)
  /\ Commit([apple_nvme_ring_cq_doorbell(q, Cur)
              EXCEPT !.drain = [q |-> "none", found |-> 0]])

\* ------------------------------------------------------------ initial states

\* The address filter (apple-sart.c): APPLE_SART_MAX_ENTRIES entries, of
\* which the model keeps MaxSartEntries.
MaxSartEntries == 3
APPLE_SART_CONFIG_SIZE_SHIFT == 12
APPLE_SART_PADDR_SHIFT == 12
APPLE_SART_CONFIG_FLAGS_ALLOW == 255

SartEntryIds == 0 .. (MaxSartEntries - 1)
SartOps == {"v2", "v3"}

\* One entry's registers: the flags field of CONFIG, PADDR and the size field
\* (of CONFIG on SARTv2, the SIZE register on SARTv3).
ZeroSartRegs == [config |-> 0, paddr |-> 0, size |-> 0]

\* struct apple_sart with the registers it maps; ret and idx are the return
\* value of the last call and the entry it wrote (-1: none).
SartIdle == [ops |-> "v2", regs |-> [i \in SartEntryIds |-> ZeroSartRegs],
             protected_entries |-> {}, used_entries |-> {},
             ret |-> "0", idx |-> -1]

\* struct apple_rtkit (apple-rtkit.c) before apple_rtkit_init: state, the
\* boot result, boot_completion (done counts complete(), all is
\* complete_all()), the receive FIFO, the mailbox channel, and the
\* apple_rtkit_boot_wait call in progress with its last return value.
RtkNone == [state |-> "init", boot_result |-> 0, version |-> 0,
            done |-> 0, all |-> FALSE, fifo |-> << >>, chan |-> "none",
            wait |-> "never", ret |-> 0]

\* Pointers that may carry an error: an object, NULL, or ERR_PTR(val).
Obj == [kind |-> "obj", val |-> 0]
NULL == [kind |-> "null", val |-> 0]
ERR_PTR(e) == [kind |-> "err", val |-> e]

\* apple_nvme_probe before it is called: pc, the local result, the value
\* returned, whether the device context was freed, whether the queue
\* configuration registers were written, whether the coprocessor booted, the
\* first step that failed, and dev->sart and dev->rtk.
ProbeNone == [pc |-> "none", result |-> 0, ret |-> 0, freed |-> FALSE,
              regs |-> FALSE, booted |-> FALSE, failed |-> "none",
              sart |-> NULL, rtk |-> NULL]

NoLast == [op |-> "none", q |-> "admin", tag |-> 0, live |-> FALSE,
           before |-> ZeroTable]

NoHist == [armed |-> [q \in Queues |-> {}], rearm |-> {}, stale |-> FALSE,
           dup |-> {},
           last |-> NoLast,
           unreaped |-> [q \in Queues |-> 0],
           consumed |-> [q \in Queues |-> 0],
           nsubmit |-> [q \in Queues |-> 0], nreset |-> 0, nscribble |-> 0,
           sart |-> {}, shmem |-> FALSE,
           timedout |-> [q \in Queues |-> {}],
           nalloc |-> [q \in Queues |-> 0], lost |-> {}]

NoTmo == [pc |-> "idle", q |-> "admin", tag |-> 0, ret |-> "none",
          act |-> "none"]

\* No request is being mapped.
NoPrp == [pc |-> "none"]

\* Both queues configured and online on a live controller, nothing in
\* flight: the state apple_nvme_reset_work leaves after a successful run.
\* h is the history the behaviour starts with, th the submitter threads,
\* p the request whose data is mapped.
InitMapping(h, th, p) ==
  /\ ctrl_state = "live" /\ csts_cfs = FALSE /\ csts_rdy = TRUE
  /\ cc_enable = TRUE /\ queue_count = 2 /\ abort_limit = AbortLimit
  /\ reset_work = "idle" /\ remove_work = FALSE /\ aen_work = TRUE
  /\ has_tagset = TRUE /\ stopped = [q \in Queues |-> FALSE]
  /\ enabled = [q \in Queues |-> TRUE] /\ online = [q \in Queues |-> TRUE]
  /\ q_mem = [q \in Queues |-> "live"]
  /\ cq_head = [q \in Queues |-> 0] /\ cq_phase = [q \in Queues |-> 1]
  /\ cqes = [q \in Queues |-> ZeroRing(q)]
  /\ tcb = [q \in Queues |-> ZeroTable]
  /\ sq_cmds = [q \in Queues |-> ZeroSq]
  /\ sq_db = [q \in Queues |-> {}] /\ cq_db = [q \in Queues |-> 0]
  /\ dev_tail = [q \in Queues |-> 0] /\ dev_phase = [q \in Queues |-> 1]
  /\ rq = [q \in Queues |-> [t \in TagsOf(q) |-> IdleRq]]
  /\ aen_out = FALSE
  /\ tmo = NoTmo
  /\ drain = [q |-> "none", found |-> 0]
  /\ thr = th
  /\ dd = [pc |-> "idle"]
  /\ hist = [h EXCEPT !.nalloc = [q \in Queues |-> 1]]
  /\ prp = p
  /\ sart = SartIdle
  /\ shutdown_lock = "free"
  /\ rtk = RtkNone
  /\ probe = ProbeNone

InitLive(h, th) == InitMapping(h, th, NoPrp)

\* The queue pair and its reaper: submissions, device answers, drains.
NextRing ==
  \/ \E q \in Queues, t \in TcbTags :
        \E c \in Cmds(q) :
          t \in TagsOf(q) /\ Submit(q, t, c, hist.nsubmit[q] < RingBudget(q))
  \/ SubmitAsyncEvent(hist.nsubmit["admin"] < RingBudget("admin"))
  \/ \E q \in Queues, t \in TcbTags : DevicePost(q, t)
  \/ \E q \in Queues, t \in TcbTags : t \in TagsOf(q) /\ SoftirqDone(q, t)
  \/ \E q \in Queues : ReapStep(q)
  \/ \E q \in Queues : ReapEnd(q)

\* One queue pair's traffic per behaviour: the other queue's budget is spent.
InitRing ==
  \E f \in Queues :
    InitLive([NoHist EXCEPT !.nsubmit =
                [q \in Queues |-> IF q = f THEN 0 ELSE RingBudget(q)]],
             << >>)

SpecRing == InitRing /\ [][NextRing]_vars

\* ------------------------------------------------------- the whole driver

\* The platform interrupt: apple_nvme_irq, raised by a completion the device
\* posted on a queue that is online.
Irq ==
  /\ \E q \in Queues : online[q] /\ apple_nvme_cqe_pending(q, Cur)
  /\ Commit(apple_nvme_irq(Cur))

\* blk-mq's timeout work calls .timeout for a request it found in flight,
\* which the interrupt may have completed since: the handler runs to the end
\* of its poll.
TimeoutPoll(q, tag, answered) ==
  /\ tmo.pc = "idle"
  /\ rq[q][tag].state \in {"in_flight", "complete"}
  /\ Commit(timeout_poll(q, tag, answered, Cur))

\* The handler goes on from the poll to its return.
TimeoutDecide(answered) ==
  /\ tmo.pc = "polled"
  /\ Commit(timeout_decide(answered, Cur))

\* The controller enters fatal state (CSTS.CFS).
DeviceFault ==
  /\ cc_enable /\ csts_rdy /\ ~csts_cfs
  /\ Commit([Cur EXCEPT !.csts_cfs = TRUE])

\* The reset work starts. nvme_sync_queues in it waits for a timeout handler
\* that is running.
ResetWorkBegin(up, answered) ==
  /\ reset_work = "queued"
  /\ tmo.pc = "idle"
  /\ hist.nreset < MaxReset
  /\ Commit(reset_work_begin(up, answered, Cur))

\* The identify of the reset work has returned and the work runs to its end;
\* it goes the whole way only with a controller that answers.
ResetWorkEnd(ok, answered) ==
  /\ reset_work \in {"ok", "failed"}
  /\ tmo.pc = "idle"
  /\ ok => (csts_rdy /\ ~csts_cfs /\ reset_work = "ok")
  /\ Commit(reset_work_end(ok, answered, Cur))

\* The memory of a freed completion ring belongs to somebody else and may
\* take any value: the entry the reaper reads next comes to name command
\* id cid with the phase bit the reaper waits for.
Scribble(q, cid) ==
  /\ q_mem[q] = "freed"
  /\ hist.nscribble < MaxScribble
  /\ Commit([Cur EXCEPT !.cqes[q][cq_head[q]] =
                           [command_id |-> cid, status |-> cq_phase[q]],
                        !.hist.nscribble = @ + 1])

\* Commands that went to the driver so far, on either queue.
Submitted == hist.nsubmit["admin"] + hist.nsubmit["io"]

Next ==
  \/ \E q \in Queues, t \in TcbTags :
        \E c \in Cmds(q) :
          /\ t \in TagsOf(q)
          /\ c.opcode \in AdminOpcodes \cup {LowestTag(IoOpcodes)}
          /\ Submit(q, t, c, Submitted < MaxSubmit)
  \/ SubmitAsyncEvent(Submitted < MaxSubmit)
  \/ \E q \in Queues, t \in TcbTags : DevicePost(q, t)
  \/ Irq
  \/ \E q \in Queues, t \in TcbTags : t \in TagsOf(q) /\ SoftirqDone(q, t)
  \/ \E q \in Queues, t \in TcbTags, answered \in BOOLEAN :
        t \in TagsOf(q) /\ TimeoutPoll(q, t, answered)
  \/ \E answered \in BOOLEAN : TimeoutDecide(answered)
  \/ DeviceFault
  \/ \E up, answered \in BOOLEAN : ResetWorkBegin(up, answered)
  \/ \E ok, answered \in BOOLEAN : ResetWorkEnd(ok, answered)
  \/ \E q \in Queues, cid \in TcbTags : Scribble(q, cid)

\* The device after apple_nvme_probe: nvme_init_ctrl, then nvme_reset_ctrl
\* has set RESETTING and queued the reset work; no queue is allocated.
DriverAt(state, work) ==
  /\ ctrl_state = state /\ csts_cfs = FALSE /\ csts_rdy = FALSE
  /\ cc_enable = FALSE /\ queue_count = 0 /\ abort_limit = 0
  /\ reset_work = work /\ remove_work = FALSE /\ aen_work = FALSE
  /\ has_tagset = FALSE /\ stopped = [q \in Queues |-> FALSE]
  /\ enabled = [q \in Queues |-> FALSE] /\ online = [q \in Queues |-> FALSE]
  /\ q_mem = [q \in Queues |-> "none"]
  /\ cq_head = [q \in Queues |-> 0] /\ cq_phase = [q \in Queues |-> 0]
  /\ cqes = [q \in Queues |-> ZeroRing(q)]
  /\ tcb = [q \in Queues |-> ZeroTable]
  /\ sq_cmds = [q \in Queues |-> ZeroSq]
  /\ sq_db = [q \in Queues |-> {}] /\ cq_db = [q \in Queues |-> 0]
  /\ dev_tail = [q \in Queues |-> 0] /\ dev_phase = [q \in Queues |-> 1]
  /\ rq = [q \in Queues |-> [t \in TagsOf(q) |-> IdleRq]]
  /\ aen_out = FALSE
  /\ tmo = NoTmo
  /\ drain = [q |-> "none", found |-> 0]
  /\ thr = << >>
  /\ dd = [pc |-> "idle"]
  /\ hist = NoHist
  /\ prp = NoPrp
  /\ shutdown_lock = "free"

\* After apple_nvme_probe: the first reset is scheduled.
ColdDriver == DriverAt("resetting", "queued")

Init ==
  /\ ColdDriver
  /\ sart = SartIdle
  /\ rtk = RtkNone
  /\ probe = ProbeNone

Spec == Init /\ [][Next]_vars

\* ------------------------------------------------- the tracking table alone

\* An arm of the entry of a tag: apple_nvme_submit_cmd for a command with
\* that command id. hist.last keeps the table as it was before the call.
TcbArm(q, tag, c) ==
  /\ hist.nsubmit[q] < MaxArm
  /\ Commit(apple_nvme_submit_cmd(q, nvme_setup_cmd(tag, c),
        [Cur EXCEPT !.hist.nsubmit[q] = @ + 1,
                    !.hist.last = [op |-> "arm", q |-> q, tag |-> tag,
                                   live |-> tag \in hist.armed[q],
                                   before |-> tcb[q]]]))

\* An invalidate of the entry of a tag: apple_nvmmu_inval.
TcbInval(q, tag) ==
  Commit(apple_nvmmu_inval(q, tag,
        [Cur EXCEPT !.hist.last = [op |-> "inval", q |-> q, tag |-> tag,
                                   live |-> tag \in hist.armed[q],
                                   before |-> tcb[q]]]))

NextTcb ==
  \/ \E q \in Queues, t \in TcbTags : \E c \in Cmds(q) : TcbArm(q, t, c)
  \/ \E q \in Queues, t \in TcbTags : TcbInval(q, t)

InitTcb ==
  \E f \in Queues :
    InitLive([NoHist EXCEPT !.nsubmit =
                [q \in Queues |-> IF q = f THEN 0 ELSE MaxArm]],
             << >>)

SpecTcb == InitTcb /\ [][NextTcb]_vars

\* ------------------------------------------- concurrent submitters, by store

\* Each thread runs apple_nvme_submit_cmd for its own command; one store of
\* the function per step, in program order: the memset of the tracking
\* entry, its field stores, the memcpy into the ring, the doorbell write.
\* thr[i].wrote is the thread's own record of what it has written so far.
Threads == 1 .. NThreads

\* Command ids a queue can see: the tags of its tag set, and on the admin
\* queue the id of the asynchronous event request.
SubmitTags(q) ==
  TagsOf(q) \cup (IF q = "admin" THEN {NVME_AQ_BLK_MQ_DEPTH} ELSE {})

\* apple_nvme_queue_rq of the thread's request, last statement before the
\* submit sequence: blk_mq_start_request. (The asynchronous event command has
\* no request and enters at the memset.)
ThrStart(i) ==
  /\ i \in DOMAIN thr /\ thr[i].pc = "start"
  /\ Commit([blk_mq_start_request(thr[i].q, thr[i].cmd.command_id, Cur)
             EXCEPT !.thr[i].pc = "memset",
                    !.thr[i].wrote =
                       Append(@, <<"start", thr[i].cmd.command_id>>)])

ThrMemset(i) ==
  /\ i \in DOMAIN thr /\ thr[i].pc = "memset"
  /\ Commit([Cur EXCEPT !.tcb[thr[i].q] = tcb_memset(@, thr[i].cmd.command_id),
                         !.thr[i].pc = "fill"])

ThrFill(i) ==
  /\ i \in DOMAIN thr /\ thr[i].pc = "fill"
  /\ Commit([Cur EXCEPT !.tcb[thr[i].q] =
                            tcb_fill(@, thr[i].cmd.command_id, thr[i].cmd),
                         !.thr[i].pc = "copy",
                         !.thr[i].wrote =
                            Append(@, <<"tcb", thr[i].cmd.command_id>>)])

ThrCopy(i) ==
  /\ i \in DOMAIN thr /\ thr[i].pc = "copy"
  /\ Commit([Cur EXCEPT !.sq_cmds[thr[i].q] =
                            sq_copy(@, thr[i].cmd.command_id, thr[i].cmd),
                         !.thr[i].pc = "bell",
                         !.thr[i].wrote =
                            Append(@, <<"sq", sq_slot(thr[i].cmd.command_id)>>)])

\* writel(tag, nvmeq->ans2_q_db): the value written is the tag; the write
\* is ordered after the stores before it.
ThrBell(i) ==
  /\ i \in DOMAIN thr /\ thr[i].pc = "bell"
  /\ Commit([Cur EXCEPT !.sq_db[thr[i].q] = @ \cup {thr[i].cmd.command_id},
                         !.hist.armed[thr[i].q] =
                            @ \cup {thr[i].cmd.command_id},
                         !.thr[i].pc = "done",
                         !.thr[i].wrote =
                            Append(@, <<"db", thr[i].cmd.command_id>>)])

NextSubmit ==
  \/ \E i \in Threads : ThrStart(i)
  \/ \E i \in Threads : ThrMemset(i)
  \/ \E i \in Threads : ThrFill(i)
  \/ \E i \in Threads : ThrCopy(i)
  \/ \E i \in Threads : ThrBell(i)

\* Every thread holds a command of its own, with a tag no other thread has
\* (blk-mq hands a tag to one request at a time).
InitSubmit ==
  \E q \in Queues :
    \E tags \in [Threads -> SubmitTags(q)] :
      \E cs \in [Threads -> Cmds(q)] :
        /\ \A i, j \in Threads : i # j => tags[i] # tags[j]
        /\ InitLive(NoHist,
             [i \in Threads |->
                [q |-> q,
                 pc |-> IF tags[i] \in TagsOf(q) THEN "start" ELSE "memset",
                 wrote |-> << >>,
                 cmd |-> nvme_setup_cmd(tags[i], [cs[i] EXCEPT !.prp1 = i])]])

SpecSubmit == InitSubmit /\ [][NextSubmit]_vars

\* ------------------------------- the interrupt against the device disable

\* The interrupt handler and apple_nvme_dev_disable(dev, true) run on two
\* processors. Neither drain of the I/O completion ring holds a lock, and
\* the disable masks the interrupt only around its poll of the admin queue on
\* a controller that answers; each drain is followed through the steps of
\* its loop: the test of the entry at cq_head, then the handling of the entry
\* and the head update. The two drains read and write cq_head unordered, so
\* the entry a drain handles after its test is the one it tested or the one
\* cq_head names by then.

NoDrain == [q |-> "none", found |-> 0]

\* apple_nvme_irq enters: the admin queue drain, then the test of ioq_online.
IrqEnter ==
  /\ drain.q = "none"
  /\ \E q \in Queues : online[q] /\ apple_nvme_cqe_pending(q, Cur)
  /\ Commit([irq_admin(Cur) EXCEPT !.drain =
               IF online["io"]
               THEN [q |-> "io", found |-> 0, at |-> "test", idx |-> 0]
               ELSE NoDrain])

\* The loop test of nvme_process_cq(dev->ioq) in the handler; at its end the
\* doorbell and the return.
IrqTest ==
  /\ drain.q = "io" /\ drain.at = "test"
  /\ IF apple_nvme_cqe_pending("io", Cur)
     THEN Commit([Cur EXCEPT !.drain.at = "handle",
                             !.drain.idx = cq_head["io"],
                             !.drain.found = @ + 1])
     ELSE Commit([(IF drain.found > 0
                   THEN apple_nvme_ring_cq_doorbell("io", Cur) ELSE Cur)
                  EXCEPT !.drain = NoDrain])

\* The loop body in the handler: apple_nvme_handle_cqe on entry idx, then
\* apple_nvme_update_cq_head.
IrqHandle(idx) ==
  /\ drain.q = "io" /\ drain.at = "handle"
  /\ idx \in {drain.idx, cq_head["io"]}
  /\ Commit([apple_nvme_update_cq_head("io",
               apple_nvme_handle_cqe("io", idx, Cur))
             EXCEPT !.drain.at = "test"])

\* The requests in flight on either queue.
InFlight ==
  {p \in Queues \X TcbTags :
     p[2] \in TagsOf(p[1]) /\ rq[p[1]][p[2]].state = "in_flight"}

\* apple_nvme_shutdown: nvme_wait_reset takes the controller to RESETTING,
\* then apple_nvme_dev_disable(dev, true) runs up to its drain of the I/O
\* ring. On a controller that answers, the disable_irq of the admin poll
\* waits for a handler that is running.
DdQuiesce(answered) ==
  /\ dd.pc = "idle"
  /\ ctrl_state = "live"
  /\ (~(csts_cfs \/ ~csts_rdy) /\ queue_count > 0) => drain.q = "none"
  /\ Commit([dev_disable_quiesce(TRUE, answered,
                                 nvme_change_ctrl_state("resetting", Cur))
             EXCEPT !.dd = [pc |-> IF queue_count > 1 THEN "test"
                                   ELSE "cancel",
                            found |-> 0, idx |-> 0, out |-> InFlight]])

\* The loop test of nvme_process_cq(dev->ioq) in the disable.
DdTest ==
  /\ dd.pc = "test"
  /\ IF apple_nvme_cqe_pending("io", Cur)
     THEN Commit([Cur EXCEPT !.dd.pc = "handle", !.dd.idx = cq_head["io"],
                             !.dd.found = @ + 1])
     ELSE Commit([(IF dd.found > 0
                   THEN apple_nvme_ring_cq_doorbell("io", Cur) ELSE Cur)
                  EXCEPT !.dd.pc = "cancel"])

\* The loop body in the disable.
DdHandle(idx) ==
  /\ dd.pc = "handle"
  /\ idx \in {dd.idx, cq_head["io"]}
  /\ Commit([apple_nvme_update_cq_head("io",
               apple_nvme_handle_cqe("io", idx, Cur))
             EXCEPT !.dd.pc = "test"])

\* The disable cancels both tag sets, waits for the completions, restarts
\* the queues and returns.
DdFinish ==
  /\ dd.pc = "cancel"
  /\ Commit([dev_disable_cancel(TRUE, Cur) EXCEPT !.dd.pc = "done"])

NextRace ==
  \/ \E q \in Queues, t \in TcbTags :
        \E c \in Cmds(q) :
          /\ t \in TagsOf(q)
          /\ c.opcode \in AdminOpcodes \cup {LowestTag(IoOpcodes)}
          /\ dd.pc = "idle"
          /\ Submit(q, t, c, Submitted < MaxSubmit)
  \/ \E q \in Queues, t \in TcbTags : DevicePost(q, t)
  \/ \E q \in Queues, t \in TcbTags : t \in TagsOf(q) /\ SoftirqDone(q, t)
  \/ DeviceFault
  \/ IrqEnter
  \/ IrqTest
  \/ \E idx \in 0 .. (QueueDepth - 1) : IrqHandle(idx)
  \/ \E answered \in BOOLEAN : DdQuiesce(answered)
  \/ DdTest
  \/ \E idx \in 0 .. (QueueDepth - 1) : DdHandle(idx)
  \/ DdFinish

InitRace == InitLive(NoHist, << >>)

SpecRace == InitRace /\ [][NextRace]_vars

\* ------------------------------------------------------------------- claims

\* C1: on a ring of depth D, cq_head stays in 0 .. D-1 and follows the
\* number of entries consumed modulo D, and cq_phase has flipped exactly once
\* per D entries consumed (it starts at 1, so it is 0 after D entries and 1
\* again after 2D): the phase changes only in the step that wraps the head.
C1_PhaseOncePerLap ==
  \A q \in Queues :
    /\ cq_head[q] \in 0 .. (q_depth(q) - 1)
    /\ cq_head[q] = hist.consumed[q] % q_depth(q)
    /\ cq_phase[q] = (1 + (hist.consumed[q] \div q_depth(q))) % 2

\* The I/O ring has been lapped exactly once: D entries consumed from head 0.
C1_Witness ==
  /\ hist.consumed["io"] = QueueDepth
  /\ cq_head["io"] = 0
  /\ cq_phase["io"] = 0

\* C2: every entry the reaper handles carries the queue's current phase and
\* is an entry the device posted and the reaper had not handled yet; an entry
\* left from the previous lap is never handled.
C2_NoStaleEntryHandled == ~hist.stale

\* After a lap the entry at cq_head is a left-over of the previous lap, the
\* drain has returned and nothing stale was handled.
C2_Witness ==
  \E q \in Queues :
    /\ cq_phase[q] = 0
    /\ cqes[q][cq_head[q]].status % 2 = 1
    /\ hist.unreaped[q] = 0
    /\ hist.consumed[q] >= q_depth(q)
    /\ drain.q = "none"
    /\ \E t \in TagsOf(q) : rq[q][t].status = "ok"

\* C7: for threads running the submit sequence concurrently on one queue
\* with pairwise distinct tags, in every interleaving: no two ring slots carry
\* the same tag and no tag has two live tracking entries, and when all have
\* returned the ring slot and the tracking entry of each tag hold exactly the
\* command of the thread that owns the tag.
C7_SlotsOwnedByTag ==
  thr # << >> =>
    /\ \A a, b \in TcbTags :
          \A q \in Queues :
            (a # b /\ sq_cmds[q][a] # ZeroCmd /\ sq_cmds[q][b] # ZeroCmd)
              => sq_cmds[q][a].command_id # sq_cmds[q][b].command_id
    /\ \A a, b \in TcbTags :
          \A q \in Queues :
            (a # b /\ tcb[q][a] # ZeroTcb /\ tcb[q][b] # ZeroTcb)
              => tcb[q][a].command_id # tcb[q][b].command_id
    /\ (\A i \in DOMAIN thr : thr[i].pc = "done") =>
          \A i \in DOMAIN thr :
            LET q == thr[i].q
                tag == thr[i].cmd.command_id
            IN /\ sq_cmds[q][tag] = thr[i].cmd
               /\ tcb[q][tag] = tcb_fill(ZeroTable, tag, thr[i].cmd)[tag]
               /\ tag \in sq_db[q]

\* All the threads have returned, each from a submit on the same queue.
C7_Witness ==
  /\ Len(thr) = NThreads
  /\ \A i \in DOMAIN thr : thr[i].pc = "done" /\ thr[i].q = thr[1].q
  /\ \A i, j \in DOMAIN thr :
        i # j => thr[i].cmd.command_id # thr[j].cmd.command_id

\* C8: an invalidate leaves the slot of its tag fully zeroed (so arm followed
\* by invalidate does) and every other slot as it was; an invalidate of a
\* tag with no arm since its previous invalidate leaves the whole table as
\* it was.
C8_InvalZeroesIdempotent ==
  hist.last.op = "inval" =>
    LET q == hist.last.q
        tag == hist.last.tag
    IN /\ tcb[q][tag] = ZeroTcb
       /\ \A u \in TcbTags : u # tag => tcb[q][u] = hist.last.before[u]
       /\ ~hist.last.live => tcb[q] = hist.last.before

\* A tag that was armed and invalidated has been invalidated again, while
\* another entry of the table is live.
C8_Witness ==
  /\ hist.last.op = "inval"
  /\ ~hist.last.live
  /\ sq_cmds[hist.last.q][hist.last.tag] # ZeroCmd
  /\ \E u \in TcbTags : tcb[hist.last.q][u] # ZeroTcb

\* ------------------------------------------------- claims on the whole driver

\* The step in which the timeout handler, past its poll (the status register
\* read had no fatal condition for a live controller, the forced drain did
\* not find the request completed), runs to its return.
TimeoutDecides(q) == tmo.pc = "polled" /\ tmo'.pc = "idle" /\ tmo.q = q

\* That step sends an abort command for the tag of the request: a request of
\* the admin tag set that was free goes out with the abort opcode and the tag.
AbortIssued ==
  \E t \in AdminTags :
    /\ rq["admin"][t].state = "idle"
    /\ rq'["admin"][t].state = "in_flight"
    /\ rq'["admin"][t].end_io = "abort_endio"
    /\ sq_cmds'["admin"][t].opcode = nvme_admin_abort_cmd
    /\ sq_cmds'["admin"][t].cdw10 = tmo.tag
    /\ t \in sq_db'["admin"]

\* That step leaves the device and the reset work alone.
DeviceLeftAlone ==
  /\ ctrl_state' = ctrl_state /\ reset_work' = reset_work
  /\ enabled' = enabled /\ online' = online /\ cc_enable' = cc_enable
  /\ stopped' = stopped

\* That step disabled the device (both queues suspended and offline) and
\* scheduled the reset work.
DisabledAndResetScheduled ==
  /\ \A q \in Queues : ~enabled'[q] /\ ~online'[q]
  /\ ctrl_state' = "resetting"
  /\ reset_work' = "queued"

\* That step sent no abort command and took nothing from the abort budget.
NoAbortNoBudget ==
  /\ abort_limit' >= abort_limit
  /\ \A t \in AdminTags :
        rq'["admin"][t].end_io = "abort_endio"
          => rq["admin"][t].end_io = "abort_endio"

\* C3 as stated: the first timeout of an I/O request on a live controller,
\* not found completed by the forced drain, sends an abort for its tag,
\* marks it aborted, returns re-arm and leaves the device alone.
C3_AsStated ==
  [][(TimeoutDecides("io") /\ ctrl_state = "live"
        /\ rq["io"][tmo.tag].aborted = 0)
       => /\ AbortIssued
          /\ rq'["io"][tmo.tag].aborted = 1
          /\ tmo'.ret = "reset_timer"
          /\ DeviceLeftAlone]_vars

\* C3: the first timeout of an I/O request on a live controller, not found
\* completed by the forced drain, always returns re-arm and leaves the
\* device alone; it sends an abort for the tag and marks the request aborted
\* when the abort budget is not used up and the admin tag set has a free
\* request. With the budget used up it does neither.
C3_FirstTimeoutAborts ==
  [][(TimeoutDecides("io") /\ ctrl_state = "live"
        /\ rq["io"][tmo.tag].aborted = 0)
       => /\ tmo'.ret = "reset_timer"
          /\ DeviceLeftAlone
          /\ (abort_limit >= 1 /\ admin_free_tags(Cur) # {})
               => /\ AbortIssued
                  /\ rq'["io"][tmo.tag].aborted = 1
                  /\ abort_limit' = abort_limit - 1
          /\ abort_limit < 1
               => /\ ~AbortIssued
                  /\ rq'["io"][tmo.tag].aborted = 0
                  /\ abort_limit' = abort_limit]_vars

\* The handler returned re-arm for an I/O request it marked aborted, the
\* abort for its tag is with the device, the controller is live and enabled.
C3_Witness ==
  /\ tmo.pc = "idle" /\ tmo.q = "io" /\ tmo.act = "abort"
  /\ tmo.ret = "reset_timer"
  /\ rq["io"][tmo.tag].state = "in_flight"
  /\ rq["io"][tmo.tag].aborted = 1
  /\ \E t \in AdminTags :
        /\ rq["admin"][t].state = "in_flight"
        /\ sq_cmds["admin"][t].opcode = nvme_admin_abort_cmd
        /\ sq_cmds["admin"][t].cdw10 = tmo.tag
  /\ ctrl_state = "live" /\ enabled["io"] /\ reset_work = "idle"

\* The other requests in flight on the I/O queue when the handler decides.
OthersInFlight ==
  {t \in IoTags \ {tmo.tag} : rq["io"][t].state = "in_flight"}

C6_FinalizedExactlyOnce ==
  dd.pc # "idle" =>
    /\ \A p \in dd.out : p \notin hist.dup
    /\ dd.pc = "done" => \A p \in dd.out : rq[p[1]][p[2]].state = "idle"

\* C9: the tracking entry of a tag is never armed again while its previous
\* arm has not been invalidated (hist.rearm collects the arms of a tag that
\* was armed and not invalidated since).
C9_NoRearmBeforeInvalidate == hist.rearm = {}

\* The commands outstanding on a queue: requests in flight and, on the admin
\* queue, the asynchronous event request while it is with the device.
Outstanding(q) ==
  {t \in TagsOf(q) : rq[q][t].state = "in_flight"}
    \cup (IF q = "admin" /\ aen_out THEN {NVME_AQ_BLK_MQ_DEPTH} ELSE {})

\* The tags whose tracking entry is live (non-zero) on a queue.
LiveTcbs(q) == {t \in TcbTags : tcb[q][t] # ZeroTcb}

\* C10: whenever no submit, reap or timeout handling is in progress, the
\* tags with a live tracking entry on a queue are exactly the tags with an
\* outstanding command on it; a request finalized by forced cancellation
\* leaves no live entry behind.
C10_LiveTcbsAreOutstanding ==
  (tmo.pc = "idle" /\ drain.q = "none")
    => \A q \in Queues : LiveTcbs(q) = Outstanding(q)

\* The step in which blk-mq hands a request to apple_nvme_queue_rq on
\* queue q (the asynchronous event request does not pass through it).
QueueRqStep(q) ==
  /\ hist'.nsubmit[q] = hist.nsubmit[q] + 1
  /\ aen_work' = aen_work

\* C11: a submit on a queue whose enabled flag is clear ends with a
\* not-ready status the dispatcher retries, never with a hard I/O failure,
\* and writes nothing to the tracking table, the submission ring or the
\* doorbell.
C11_DisabledQueueNotReady ==
  [][\A q \in Queues :
       (QueueRqStep(q) /\ ~enabled[q])
         => /\ \A t \in TagsOf(q) :
                  rq'[q][t].status = "ioerr" => rq[q][t].status = "ioerr"
            /\ tcb' = tcb /\ sq_cmds' = sq_cmds /\ sq_db' = sq_db]_vars


\* A submitter is inside the write sequence of apple_nvme_submit_cmd from its
\* first store to the tracking table until it has rung the doorbell.
InSubmitWrites(i) == thr[i].pc \in {"fill", "copy", "bell"}

\* C12: the tracking-entry write and the ring slot write of a submission are
\* done under the queue's sq_lock, so at most one submitter on a queue is
\* inside its write sequence at a time.
C12_SubmitWritesSerialised ==
  \A i, j \in DOMAIN thr :
    (i # j /\ thr[i].q = thr[j].q) => ~(InSubmitWrites(i) /\ InSubmitWrites(j))

\* Which contexts are inside nvme_process_cq on the I/O queue: the interrupt
\* handler, and the direct drain of apple_nvme_dev_disable.
IrqInProcessCq == drain.q = "io"
DisableInProcessCq == dd.pc \in {"test", "handle"}

\* C13: no two contexts execute nvme_process_cq on the same queue at the
\* same time: the interrupt handler's drain of the I/O queue and the direct
\* drain of the I/O queue in the disable exclude each other.
C13_OneDrainPerQueue == ~(IrqInProcessCq /\ DisableInProcessCq)

\* ---------------------------------------- the data mapping of one request

\* The segments a request can come with: segment k lies in region k, at an
\* offset into its page, with a length in bytes. Lists that blk-mq builds
\* for this controller (every segment but the first starts with a page,
\* every one but the last ends with a page) are among them, and so are
\* lists that are not of that form.
PrpOffsets(k) ==
  IF k = 1 THEN {0, 8, NVME_CTRL_PAGE_SIZE + 8} ELSE {0, 8}
PrpLens == {8, NVME_CTRL_PAGE_SIZE - 8, NVME_CTRL_PAGE_SIZE,
            2 * NVME_CTRL_PAGE_SIZE, 3 * NVME_CTRL_PAGE_SIZE}
Segments(k) == [page : {DataBase(k)}, offset : PrpOffsets(k), len : PrpLens]
FragLists ==
  UNION {{s \in [1 .. n -> UNION {Segments(k) : k \in 1 .. n}] :
            \A k \in 1 .. n : s[k] \in Segments(k)} : n \in 1 .. MaxFrags}

\* The bytes of the segments from k on.
RECURSIVE SumLen(_, _)
SumLen(frags, k) ==
  IF k > Len(frags) THEN 0 ELSE frags[k].len + SumLen(frags, k + 1)

\* blk_rq_payload_bytes of a request with these segments: their sum, and
\* for the requests whose list does not match it, a page more or less.
PayloadLengths(frags) ==
  {l \in {SumLen(frags, 1), SumLen(frags, 1) + NVME_CTRL_PAGE_SIZE,
          SumLen(frags, 1) - NVME_CTRL_PAGE_SIZE} : l > 0}

\* blk-mq dispatches the request: apple_nvme_queue_rq with the outcomes of
\* the allocations and mappings it asks for.
PrpQueueRq(tag, c, budget, sg_ok, map_ok, meta) ==
  /\ prp.pc = "new"
  /\ hist.nsubmit["io"] < MaxSubmit
  /\ rq["io"][tag].state = "idle"
  /\ ~stopped["io"]
  /\ Commit(queue_rq_data("io", tag, c, budget, sg_ok, map_ok, meta,
                          [Cur EXCEPT !.hist.nsubmit["io"] = @ + 1]))

\* apple_nvme_shutdown before the request is dispatched or while it is
\* outstanding: apple_nvme_disable_prepare_reset(dev, true).
Shutdown(answered) ==
  /\ ctrl_state = "live"
  /\ prp.pc \in {"new", "mapped"}
  /\ Commit(apple_nvme_dev_disable(TRUE, answered,
                                   nvme_change_ctrl_state("resetting", Cur)))

NextPrp ==
  \/ \E tag \in IoTags, budget \in 0 .. PoolBlocks, sg_ok \in BOOLEAN,
        map_ok \in BOOLEAN, meta \in {"none", "ok", "fail"} :
        \E c \in Cmds("io") :
          PrpQueueRq(tag, c, budget, sg_ok, map_ok, meta)
  \/ \E t \in IoTags : DevicePost("io", t)
  \/ Irq
  \/ \E t \in IoTags : SoftirqDone("io", t)
  \/ \E answered \in BOOLEAN : Shutdown(answered)

InitPrp ==
  \E frags \in FragLists :
    \E length \in PayloadLengths(frags) :
      InitMapping(NoHist, << >>, NewPrp(frags, length))

SpecPrp == InitPrp /\ [][NextPrp]_vars

\* ------------------------------------------------ claims on the data mapping

\* apple_nvme_queue_rq has run for the request.
Dispatched == prp.pc \in {"mapped", "ended", "oops"}

\* blk_rq_payload_bytes is the sum of the segments.
PayloadMatches == prp.length = SumLen(prp.frags, 1)

\* Nothing is out of the scatterlist mempool or of the two PRP list pools.
NothingAllocated ==
  /\ prp.sg_free = 1
  /\ prp.free = [small |-> SmallPool, page |-> PagePool]

\* The first byte of the page after the one addr lies in.
NextPageBoundary(addr) ==
  (addr \div NVME_CTRL_PAGE_SIZE + 1) * NVME_CTRL_PAGE_SIZE

\* The pointers of a transfer of len bytes at the bus address addr that
\* fits in two pages.
TwoPagePointers(addr, len) ==
  /\ prp.cmd.prp1 = addr
  /\ (addr + len > NextPageBoundary(addr))
       => prp.cmd.prp2 = NextPageBoundary(addr)

\* C14 as stated: a request with one segment of at most two controller
\* pages, at any offset, is mapped without any pool allocation, prp1 the
\* segment's address and prp2 the next page boundary when it is crossed.
C14_AsStated ==
  (Dispatched /\ Len(prp.frags) = 1 /\ PayloadMatches
     /\ prp.frags[1].len <= 2 * NVME_CTRL_PAGE_SIZE)
    => /\ NothingAllocated
       /\ prp.ret = "ok" =>
            TwoPagePointers(prp.frags[1].page + prp.frags[1].offset,
                            prp.frags[1].len)

\* C14: a request with one segment whose offset into its page plus its
\* length is at most two controller pages is mapped without any pool
\* allocation; when the mapping succeeds prp1 is the segment's bus address
\* and prp2, when the segment crosses the end of prp1's page, the next page
\* boundary.
C14_SimplePath ==
  (Dispatched /\ Len(prp.frags) = 1 /\ PayloadMatches
     /\ prp.frags[1].offset + prp.frags[1].len <= 2 * NVME_CTRL_PAGE_SIZE)
    => /\ NothingAllocated
       /\ prp.ret = "ok" =>
            TwoPagePointers(prp.frags[1].page + prp.frags[1].offset,
                            prp.frags[1].len)

\* A one-segment request that crosses a page boundary is with the device,
\* mapped the simple way.
C14_Witness ==
  /\ prp.pc = "mapped" /\ Len(prp.frags) = 1 /\ PayloadMatches
  /\ prp.frags[1].offset + prp.frags[1].len <= 2 * NVME_CTRL_PAGE_SIZE
  /\ prp.frags[1].offset > 0
  /\ prp.iod.dma_len = prp.frags[1].len
  /\ prp.cmd.prp2 = NextPageBoundary(prp.cmd.prp1)
  /\ rq["io"][prp.tag].state = "in_flight"

\* The list is of the form blk-mq builds for this controller: every segment
\* but the first starts with a controller page, every one but the last ends
\* with one.
WellFormed(frags) ==
  /\ \A k \in 2 .. Len(frags) :
        page_offset(frags[k].page + frags[k].offset) = 0
  /\ \A k \in 1 .. (Len(frags) - 1) :
        page_offset(frags[k].page + frags[k].offset + frags[k].len) = 0

\* The controller pages the bytes [addr, addr + len) lie in, in order.
PagesOf(addr, len) ==
  [j \in 1 .. ((page_offset(addr) + len + NVME_CTRL_PAGE_SIZE - 1)
                 \div NVME_CTRL_PAGE_SIZE) |->
     addr - page_offset(addr) + (j - 1) * NVME_CTRL_PAGE_SIZE]

\* The controller pages of the segments from k on, in order.
RECURSIVE FragPages(_, _)
FragPages(frags, k) ==
  IF k > Len(frags) THEN << >>
  ELSE PagesOf(frags[k].page + frags[k].offset, frags[k].len)
         \o FragPages(frags, k + 1)

\* The controller reads n pointers from slot i of the list page at page on:
\* the last slot of a page is the link to the next page while more than one
\* pointer is left.
RECURSIVE chain_walk(_, _, _)
chain_walk(page, i, n) ==
  IF n = 0 THEN << >>
  ELSE IF i = PrpsPerPage - 1 /\ n > 1
  THEN chain_walk(prp.mem[page][i], 0, n)
  ELSE << prp.mem[page][i] >> \o chain_walk(page, i + 1, n - 1)

\* The list pages that walk goes through, in order.
RECURSIVE chain_pages(_, _, _)
chain_pages(page, i, n) ==
  IF n = 0 THEN << >>
  ELSE IF i = PrpsPerPage - 1 /\ n > 1
  THEN chain_pages(prp.mem[page][i], 0, n)
  ELSE (IF i = 0 THEN << page >> ELSE << >>) \o chain_pages(page, i + 1, n - 1)

\* The builder returned success with a list of N >= 1 pages for a well
\* formed request, which is with the device.
ListBuilt ==
  /\ prp.pc = "mapped" /\ prp.ret = "ok"
  /\ WellFormed(prp.frags) /\ PayloadMatches
  /\ prp.list # << >>

\* C15: for a segment list that needs N >= 1 list pages, the walk of the
\* chain from prp2, following the link in the last slot of each full page,
\* yields exactly the addresses of the pages of the segments after the
\* first one, in order, none missing and none twice, through exactly the
\* list pages the request holds; prp1 is the start of the first segment.
C15_ChainWalksTheFragments ==
  ListBuilt =>
    /\ prp.cmd.prp1 = prp.frags[1].page + prp.frags[1].offset
    /\ chain_walk(prp.cmd.prp2, 0, Len(FragPages(prp.frags, 1)) - 1)
         = Tail(FragPages(prp.frags, 1))
    /\ chain_pages(prp.cmd.prp2, 0, Len(FragPages(prp.frags, 1)) - 1)
         = prp.list

\* A chain of three list pages is with the device.
C15_Witness == ListBuilt /\ Len(prp.list) = 3

\* All blocks of both PRP list pools are back in their pools.
PoolsWhole == prp.free = [small |-> SmallPool, page |-> PagePool]

\* C16: every PRP list page allocated for a request is returned to its pool
\* exactly once whichever way the request ends (completion, cancellation, or
\* a failure before submission: allocation failure, malformed list, metadata
\* mapping failure): no block is freed twice or to the wrong pool, and none
\* is still out when the request is over.
C16_ListPagesFreedOnce ==
  /\ prp.pc # "none" => ~prp.bad_free
  /\ prp.pc = "ended" => PoolsWhole

\* apple_nvme_setup_prps ran for the request and did not give up for want
\* of a list page.
BuilderRan ==
  /\ prp.pc \in {"mapped", "ended", "oops"}
  /\ prp.iod.nents > 0
  /\ prp.ret # "resource"

\* The number of controller pages a transfer of prp.length bytes from prp1
\* touches, and the pages the controller reaches through prp1, prp2 and the
\* chain for it.
PagesTouched ==
  (page_offset(prp.cmd.prp1) + prp.length + NVME_CTRL_PAGE_SIZE - 1)
    \div NVME_CTRL_PAGE_SIZE

PagesReached ==
  << prp.cmd.prp1 - page_offset(prp.cmd.prp1) >>
    \o (IF PagesTouched = 1 THEN << >>
        ELSE IF prp.list = << >> THEN << prp.cmd.prp2 >>
        ELSE chain_walk(prp.cmd.prp2, 0, PagesTouched - 1))

\* C17: a segment list that does not match the transfer length (the list
\* runs out, or what is left of a segment goes negative, before the length
\* is covered) is rejected with an I/O error, and the builder never returns
\* success with pointers that reach less or other memory than the pages of
\* the segments for the transfer length.
C17_InconsistentListRejected ==
  BuilderRan =>
    /\ SumLen(prp.frags, 1) < prp.length => prp.ret = "ioerr"
    /\ prp.ret = "ok" =>
         /\ PagesTouched <= Len(FragPages(prp.frags, 1))
         /\ PagesReached = SubSeq(FragPages(prp.frags, 1), 1, PagesTouched)

\* ------------------------------------------------------- claims on the tags

\* The command ids a queue has with the controller or in its tables: rung
\* on its doorbell and not answered, armed in its tracking table, or
\* written in a slot of its submission ring.
IdsInUse(q) ==
  sq_db[q] \cup hist.armed[q]
    \cup {sq_cmds[q][s].command_id : s \in {u \in TcbTags : sq_cmds[q][u] # ZeroCmd}}
    \cup {t \in TagsOf(q) : rq[q][t].state # "idle"}

\* C18: the tags of the I/O queue and the tags and command ids of the admin
\* queue, the id of the asynchronous event request among them, are disjoint
\* at all times: every id in use on the I/O queue lies above the reserved
\* low range of NVME_AQ_DEPTH tags, every id in use on the admin queue
\* inside it.
C18_TagsDisjoint ==
  /\ IdsInUse("io") \cap IdsInUse("admin") = {}
  /\ \A t \in IdsInUse("io") : t >= AdminDepth
  /\ \A t \in IdsInUse("admin") : t < AdminDepth
  /\ aen_out => NVME_AQ_BLK_MQ_DEPTH \in IdsInUse("admin")

\* An I/O command, an admin command and the asynchronous event request are
\* with the controller at the same time.
C18_Witness ==
  /\ sq_db["io"] # {}
  /\ sq_db["admin"] \cap AdminTags # {}
  /\ aen_out /\ NVME_AQ_BLK_MQ_DEPTH \in sq_db["admin"]

\* ------------------------------------------ the DMA address filter (SART)

\* apple_sart_add_allowed_region for a buffer: hist.sart collects the
\* buffers that were passed to it.
apple_sart_add_allowed_region(buf, m) == [m EXCEPT !.hist.sart = @ \cup {buf}]

\* apple_nvme_sart_alloc, called by apple_rtkit_common_rx_get_buffer_linux
\* when the coprocessor asks for a buffer: dma_alloc_coherent, then the
\* allow call; the coprocessor gets the address only of a buffer that was
\* allocated.
apple_nvme_sart_alloc(alloc_ok, m) ==
  IF alloc_ok
  THEN [apple_sart_add_allowed_region("shmem", m) EXCEPT !.hist.shmem = TRUE]
  ELSE m

\* The coprocessor asks for its shared memory buffer.
RtkitGetBuffer(alloc_ok) ==
  /\ ~hist.shmem
  /\ Commit(apple_nvme_sart_alloc(alloc_ok, Cur))

NextSart ==
  \/ Next
  \/ \E alloc_ok \in BOOLEAN : RtkitGetBuffer(alloc_ok)

SpecSart == Init /\ [][NextSart]_vars

\* The controller works with the memory of queue q: a command was rung on
\* its doorbell (the controller fetches the ring slot and the tracking
\* entry), or a completion was written to its ring.
DeviceUsesQueue(q) == sq_db[q] # {} \/ dev_tail[q] # 0

\* C19: every DMA buffer the device is given (the submission ring, the
\* completion ring and the tracking table of a queue, the coprocessor's
\* shared memory) has been passed to the address filter's allow operation
\* before the device first uses it.
C19_AllowedBeforeUse ==
  /\ hist.shmem => "shmem" \in hist.sart
  /\ \A q \in Queues : DeviceUsesQueue(q) => q \in hist.sart

\* ------------------------------------------------- claims on timer re-arms

\* The handler has already returned re-arm for this submission of the
\* request on a live controller (hist.timedout, cleared when the request is
\* started).
TimedOutBefore(q) == tmo.tag \in hist.timedout[q]

SubmitWrites(i) ==
  (IF thr[i].cmd.command_id \in TagsOf(thr[i].q)
   THEN << <<"start", thr[i].cmd.command_id>> >> ELSE << >>)
  \o << <<"tcb", thr[i].cmd.command_id>>,
        <<"sq", thr[i].cmd.command_id>>,
        <<"db", thr[i].cmd.command_id>> >>

\* The tracking entry that mirrors a command in full.
FullEntry(cmd) ==
  [opcode |-> cmd.opcode, prp1 |-> cmd.prp1, prp2 |-> cmd.prp2,
   length |-> cmd.length, command_id |-> cmd.command_id,
   dma_flags |-> IF cmd.opcode % 2 = 1 THEN APPLE_ANS2_TCB_DMA_TO_DEVICE
                 ELSE APPLE_ANS2_TCB_DMA_FROM_DEVICE]

\* C21: each submit writes the tracking entry once, the ring slot indexed by
\* the tag once and the doorbell once with the tag as value, in that order
\* and after the request was marked started; when the doorbell has been
\* written the tracking entry and the ring slot hold the whole command.
C21_DoorbellAfterWrites ==
  \A i \in DOMAIN thr :
    /\ Len(thr[i].wrote) <= Len(SubmitWrites(i))
    /\ thr[i].wrote = SubSeq(SubmitWrites(i), 1, Len(thr[i].wrote))
    /\ thr[i].cmd.command_id \in sq_db[thr[i].q] =>
         /\ thr[i].wrote = SubmitWrites(i)
         /\ tcb[thr[i].q][thr[i].cmd.command_id] = FullEntry(thr[i].cmd)
         /\ sq_cmds[thr[i].q][thr[i].cmd.command_id] = thr[i].cmd
         /\ thr[i].cmd.command_id \in TagsOf(thr[i].q) =>
              rq[thr[i].q][thr[i].cmd.command_id].state = "in_flight"

\* One thread has rung the doorbell for a request's command while another
\* is still between its tracking-entry write and its doorbell write.
C21_Witness ==
  \E i, j \in DOMAIN thr :
    /\ thr[i].pc = "done" /\ thr[i].cmd.command_id \in sq_db[thr[i].q]
    /\ thr[i].cmd.command_id \in TagsOf(thr[i].q)
    /\ thr[i].wrote = SubmitWrites(i)
    /\ thr[j].pc \in {"copy", "bell"}

\* ------------------------------------------------ claims on the submit path

\* The step in which apple_nvme_queue_rq runs for the request with data and
\* returns an error / returns success.
QueueRqRefused == QueueRqStep("io") /\ prp.pc = "new" /\ prp'.pc = "ended"
QueueRqAccepted == QueueRqStep("io") /\ prp.pc = "new" /\ prp'.pc = "mapped"

\* The step in which it returns an error before it maps anything (the
\* queue is not enabled, the controller not ready).
QueueRqNotTaken == QueueRqStep("io") /\ prp.pc = "new" /\ prp'.pc = "new"

\* That step wrote nothing and mapped nothing.
NothingTouched ==
  /\ tcb' = tcb /\ sq_cmds' = sq_cmds /\ sq_db' = sq_db /\ prp' = prp
  /\ \A t \in IoTags : rq'["io"][t].state = rq["io"][t].state

\* That step left the tracking table, the submission ring and the doorbell
\* as they were, did not start the request, and holds no scatterlist.
NothingSubmitted ==
  /\ tcb' = tcb /\ sq_cmds' = sq_cmds /\ sq_db' = sq_db
  /\ rq'["io"][prp'.tag].state = "idle"
  /\ prp'.sg_free = 1 /\ ~prp'.iod.sg

\* That step started the request, armed the tracking entry of its tag with
\* its command, wrote the ring slot of the tag and rang the doorbell.
WholeSubmitted ==
  /\ rq'["io"][prp'.tag].state = "in_flight"
  /\ tcb'["io"][prp'.tag].command_id = prp'.tag
  /\ tcb'["io"][prp'.tag].opcode = sq_cmds'["io"][prp'.tag].opcode
  /\ tcb'["io"][prp'.tag].prp1 = prp'.cmd.prp1
  /\ tcb'["io"][prp'.tag].prp2 = prp'.cmd.prp2
  /\ tcb'["io"][prp'.tag].length = prp'.length
  /\ sq_cmds'["io"][prp'.tag].command_id = prp'.tag
  /\ sq_cmds'["io"][prp'.tag].prp1 = prp'.cmd.prp1
  /\ sq_cmds'["io"][prp'.tag].prp2 = prp'.cmd.prp2
  /\ prp'.tag \in sq_db'["io"]
  /\ \A t \in TcbTags \ {prp'.tag} :
        tcb'["io"][t] = tcb["io"][t] /\ sq_cmds'["io"][t] = sq_cmds["io"][t]

C23_ChainFreedOnAllocFailure ==
  (prp.pc # "none" /\ prp.nomem)
    => /\ prp.pc = "ended" /\ prp.ret = "resource"
       /\ rq["io"][prp.tag].status = "resource"
       /\ prp.free = [small |-> SmallPool, page |-> PagePool]
       /\ ~prp.bad_free
       /\ prp.sg_free = 1

\* The allocation of the third list page failed after two were chained.
C23_Witness ==
  /\ prp.pc = "ended" /\ prp.nomem /\ prp.ret = "resource"
  /\ Len(prp.list) = 2 /\ prp.iod.npages = 2
  /\ prp.mem[prp.list[1]][PrpsPerPage - 1] = prp.list[2]
  /\ prp.free = [small |-> SmallPool, page |-> PagePool]

\* -------------------------------------------- claims on the timeout handler

\* The step in which the timeout handler runs for the request (q, t) in
\* flight, from its entry to its return or to the end of its forced poll.
TimeoutEnters(q, t) ==
  /\ tmo.pc = "idle" /\ rq[q][t].state = "in_flight"
  /\ \E answered \in BOOLEAN : Commit(timeout_poll(q, t, answered, Cur))

\* The requests in flight on queue q before the step are all over after it,
\* each with one of the statuses in S.
AllEndedWith(q, S) ==
  \A u \in TagsOf(q) :
    rq[q][u].state = "in_flight"
      => rq'[q][u].state = "idle" /\ rq'[q][u].status \in S

ShutdownPrepare ==
  /\ dd.pc = "idle"
  /\ ctrl_state = "live"
  /\ Commit([nvme_change_ctrl_state("resetting", Cur)
             EXCEPT !.dd = [pc |-> "prepared"]])

\* Second part: the wait is over, the disable runs to its unlock.
ShutdownDisable(answered) ==
  /\ dd.pc = "prepared"
  /\ Commit([apple_nvme_dev_disable(TRUE, answered, Cur)
             EXCEPT !.dd = [pc |-> "done"]])

NextReset ==
  \/ Next
  \/ ShutdownPrepare
  \/ \E answered \in BOOLEAN : ShutdownDisable(answered)

SpecReset == Init /\ [][NextReset]_vars

\* A step that is no recovery action: the controller state, the reset work,
\* the queues and the abort budget are as they were and no abort was sent.
NoRecoveryAction ==
  /\ DeviceLeftAlone
  /\ abort_limit' = abort_limit
  /\ NoAbortNoBudget
  /\ \A q \in Queues : \A t \in TagsOf(q) : rq'[q][t].aborted = rq[q][t].aborted

\* C25 as stated: a timeout that fires while the controller is RESETTING
\* returns re-arm and takes no recovery action.
C25_AsStated ==
  [][/\ \A q \in Queues : \A t \in TagsOf(q) :
          (TimeoutEnters(q, t) /\ ctrl_state = "resetting")
            => tmo'.pc = "polled" /\ NoRecoveryAction
     /\ \A q \in Queues :
          (TimeoutDecides(q) /\ ctrl_state = "resetting")
            => tmo'.ret = "reset_timer" /\ NoRecoveryAction]_vars

\* C25: a timeout that fires while the controller is RESETTING takes no
\* recovery action (no disable, no reset scheduled, no state change, no
\* abort budget taken, no abort sent). It returns re-arm when its forced
\* drain of the queue has not found the request completed, and handled
\* when the drain completed it.
C25_ResettingRearms ==
  [][/\ \A q \in Queues : \A t \in TagsOf(q) :
          (TimeoutEnters(q, t) /\ ctrl_state = "resetting")
            => /\ NoRecoveryAction
               /\ \/ tmo'.pc = "polled" /\ rq'[q][t].state = "in_flight"
                  \/ /\ tmo'.pc = "idle" /\ tmo'.ret = "done"
                     /\ rq'[q][t].state = "complete"
     /\ \A q \in Queues :
          (TimeoutDecides(q) /\ ctrl_state = "resetting")
            => /\ tmo'.ret = "reset_timer" /\ tmo'.act = "rearm"
               /\ NoRecoveryAction
               /\ rq' = rq]_vars

\* The handler re-armed the timer of a request in flight while the shutdown
\* had taken the controller to RESETTING and was waiting for the requests.
C25_Witness ==
  /\ tmo.pc = "idle" /\ tmo.act = "rearm" /\ tmo.ret = "reset_timer"
  /\ ctrl_state = "resetting" /\ dd.pc = "prepared"
  /\ rq[tmo.q][tmo.tag].state = "in_flight"
  /\ enabled[tmo.q]

\* ----------------------------------------- the driver with a removal beside it

\* apple_nvme_remove, first part: the controller state goes to DELETING;
\* the removal then waits for the reset work and the namespaces.
RemovePrepare ==
  /\ dd.pc = "idle"
  /\ ctrl_state \in {"live", "resetting", "connecting"}
  /\ Commit([nvme_change_ctrl_state("deleting", Cur)
             EXCEPT !.dd = [pc |-> "removing"]])

\* Second part, after flush_work of the reset work: the device is disabled
\* for good, both queues are freed and the queue count is zero.
remove_free_queues(d) ==
  [(IF d.queue_count > 0
    THEN apple_nvme_free_queue("admin",
           IF d.queue_count > 1 THEN apple_nvme_free_queue("io", d) ELSE d)
    ELSE d)
   EXCEPT !.queue_count = 0]

RemoveDisable(answered) ==
  /\ dd.pc = "removing"
  /\ reset_work = "idle"
  /\ tmo.pc = "idle"
  /\ Commit([remove_free_queues(apple_nvme_dev_disable(TRUE, answered, Cur))
             EXCEPT !.dd = [pc |-> "done"]])

NextRemove ==
  \/ Next
  \/ RemovePrepare
  \/ \E answered \in BOOLEAN : RemoveDisable(answered)

SpecRemove == Init /\ [][NextRemove]_vars

\* The device disable ran with shutdown = true in the step: both queues are
\* suspended and offline, no request is in flight, the queues of both tag
\* sets run again, and a controller that answered was shut down, not
\* disabled (CC.EN stays as it was).
DisabledForGood ==
  /\ \A p \in Queues : ~enabled'[p] /\ ~online'[p] /\ ~stopped'[p]
  /\ \A p \in Queues : \A u \in TagsOf(p) : rq'[p][u].state # "in_flight"
  /\ cc_enable' = cc_enable
  /\ reset_work' # "queued" \/ reset_work = "queued"

\* The request the handler decides on was marked cancelled: it is over with
\* the host-aborted status or, when the drain of the disable found its
\* completion, with that status, and either way the reset work that waits
\* for it is woken with a failure.
MarkedCancelled ==
  /\ rq'[tmo.q][tmo.tag].state = "idle"
  /\ rq'[tmo.q][tmo.tag].status \in {"host_aborted", "ok"}
  /\ (rq[tmo.q][tmo.tag].end_io = "sync" /\ reset_work = "wait")
       => reset_work' = "failed"

\* C26: a timeout whose forced drain did not complete the request, with the
\* controller CONNECTING, moves the controller state to DELETING, marks the
\* request cancelled, runs the device disable with shutdown = true and
\* returns handled; with the controller DELETING it does the same and the
\* state stays DELETING.
C26_ConnectingTimeoutDeletes ==
  [][\A q \in Queues :
       (TimeoutDecides(q) /\ ctrl_state \in {"connecting", "deleting"})
         => /\ ctrl_state' = "deleting"
            /\ MarkedCancelled
            /\ DisabledForGood
            /\ tmo'.ret = "done" /\ tmo'.act = "disable"
            /\ NoAbortNoBudget]_vars

\* The handler ran its disable for a command that timed out while the
\* controller was DELETING, the removal still waiting.
C26_Witness ==
  /\ tmo.pc = "idle" /\ tmo.act = "disable" /\ tmo.ret = "done"
  /\ ctrl_state = "deleting" /\ dd.pc = "removing"
  /\ \A p \in Queues : ~enabled[p] /\ ~stopped[p]
  /\ rq[tmo.q][tmo.tag].status = "host_aborted"

\* Everything of the driver and the device but the handler's own return
\* record and the bookkeeping of what timed out.
DriverState == << ctrl_state, csts_cfs, csts_rdy, cc_enable, queue_count,
                  abort_limit, reset_work, remove_work, aen_work, has_tagset,
                  stopped, enabled, online, q_mem, cq_head, cq_phase, cqes,
                  tcb, sq_cmds, sq_db, cq_db, dev_tail, dev_phase, rq,
                  aen_out >>

\* C27: the timeout of an I/O request that was not aborted before, with the
\* abort budget used up and the controller in none of the states the handler
\* treats first, only re-arms the timer: the budget counter is what it was,
\* no abort command is sent, the request is not marked, and the device is
\* neither disabled nor reset.
C27_NoBudgetOnlyRearms ==
  [][(TimeoutDecides("io")
        /\ ctrl_state \notin {"connecting", "deleting", "resetting"}
        /\ rq["io"][tmo.tag].aborted = 0
        /\ abort_limit < 1)
       => /\ tmo'.ret = "reset_timer" /\ tmo'.act = "no_budget"
          /\ abort_limit' = abort_limit
          /\ ~AbortIssued
          /\ DeviceLeftAlone
          /\ DriverState' = DriverState]_vars

\* The handler re-armed the timer of an unmarked I/O request for want of
\* budget: the budget is still used up, the request still with the device,
\* the controller live and enabled.
C27_Witness ==
  /\ tmo.pc = "idle" /\ tmo.q = "io" /\ tmo.act = "no_budget"
  /\ tmo.ret = "reset_timer"
  /\ abort_limit = 0
  /\ rq["io"][tmo.tag].state = "in_flight" /\ rq["io"][tmo.tag].aborted = 0
  /\ ctrl_state = "live" /\ enabled["io"] /\ online["io"]

\* The step in which the timeout handler runs for the request (q, t), found
\* in flight by the timeout work and maybe completed by an interrupt since,
\* from its entry to its return or to the end of its forced poll.
TimeoutRuns(q, t) ==
  /\ tmo.pc = "idle" /\ rq[q][t].state \in {"in_flight", "complete"}
  /\ \E answered \in BOOLEAN : Commit(timeout_poll(q, t, answered, Cur))

\* The completion ring of q was drained in the step: no entry is pending,
\* every entry that was pending found its request, and the head went to the
\* doorbell if there was one.
QueueDrained(q) ==
  /\ ~apple_nvme_cqe_pending(q, Cur')
  /\ apple_nvme_cqe_pending(q, Cur) => cq_db'[q] = cq_head'[q]
  /\ hist'.unreaped[q] = 0

\* C28: with the controller in no fatal condition the timeout handler first
\* drains the queue of the request; when that drain or an earlier one
\* completed the request it returns handled and does no abort, no disable,
\* no reset and no state change, and otherwise it goes on to its decision
\* with the request still in flight.
C28_PollFirst ==
  [][\A q \in Queues : \A t \in TagsOf(q) :
       (TimeoutRuns(q, t) /\ ~apple_nvme_should_reset(Cur))
         => /\ QueueDrained(q)
            /\ NoRecoveryAction
            /\ rq'[q][t].state = "complete"
                 => tmo'.pc = "idle" /\ tmo'.ret = "done"
                    /\ tmo'.act = "polled"
            /\ rq'[q][t].state # "complete"
                 => tmo'.pc = "polled" /\ rq'[q][t].state = "in_flight"]_vars

\* The handler returned handled for a request that its own drain completed:
\* the completion was posted and no interrupt had taken it.
C28_Witness ==
  /\ tmo.pc = "idle" /\ tmo.ret = "done" /\ tmo.act = "polled"
  /\ rq[tmo.q][tmo.tag].state = "complete"
  /\ rq[tmo.q][tmo.tag].status = "ok"
  /\ ctrl_state = "live" /\ ~csts_cfs
  /\ enabled[tmo.q] /\ online[tmo.q]
  /\ cq_db[tmo.q] = cq_head[tmo.q] /\ hist.consumed[tmo.q] > 0

\* ---------------------------------------------- claims on the device disable

\* The state d has both queue pairs suspended and offline and no request of
\* either tag set started or waiting for its completion to run.
AllSuspended(d) ==
  /\ \A q \in Queues : ~d.enabled[q] /\ ~d.online[q]
  /\ \A q \in Queues : \A t \in TagsOf(q) : d.rq[q][t].state = "idle"

\* A step of the reset work.
ResetWorkStep == reset_work' # reset_work \/ hist'.nreset # hist.nreset

\* In a step that begins and ends with queue q suspended no command goes to
\* the submission ring of q, its doorbell is not written and no request of
\* q is started: a request that is dispatched is refused.
NoneAccepted(q) ==
  /\ sq_db'[q] \subseteq sq_db[q]
  /\ ResetWorkStep \/ sq_cmds'[q] = sq_cmds[q]
  /\ \A t \in TagsOf(q) : rq'[q][t].state # "in_flight"

\* C29: apple_nvme_dev_disable, called with either value of shutdown in any
\* state the driver reaches, returns with both queue pairs suspended (flag
\* enabled clear, online false) and no request outstanding on either tag
\* set; a suspended queue accepts no submission, and only the reset work
\* enables it again.
C29_DisableSuspendsAll ==
  /\ [](\A shutdown, answered \in BOOLEAN :
          AllSuspended(apple_nvme_dev_disable(shutdown, answered, Cur)))
  /\ [][\A q \in Queues :
          ~enabled[q] => /\ ~enabled'[q] => NoneAccepted(q)
                         /\ enabled'[q] => ResetWorkStep]_vars

\* The timeout handler has disabled a live controller that had a request in
\* flight on each queue: both queues are suspended and offline, the two
\* requests are over, the reset work is queued and has not run.
C29_Witness ==
  /\ tmo.pc = "idle" /\ tmo.act \in {"reset", "fatal"}
  /\ reset_work = "queued" /\ ctrl_state = "resetting"
  /\ AllSuspended(Cur)
  /\ \A q \in Queues : \E t \in TagsOf(q) : rq[q][t].status = "host_aborted"

\* ------------------------------------------- claims on the queue lifecycle

\* The step in which the reset work brings the I/O queue online again, its
\* ring and table memory allocated by an earlier run.
IoQueueRecreated ==
  /\ ResetWorkStep
  /\ q_mem["io"] # "none" /\ ~online["io"] /\ online'["io"]

\* C30: when the reset work recreates the I/O queue it uses the completion
\* ring, the TCB table and the submission ring the queue has and only
\* initialises them again: nothing is allocated, the memory stays the
\* queue's own, and no buffer is lost, however often the controller is
\* reset.
C30_IoQueueMemoryReused ==
  [][IoQueueRecreated
       => /\ hist'.nalloc["io"] = hist.nalloc["io"]
          /\ q_mem'["io"] = "live"
          /\ "io" \notin hist'.lost
          /\ cq_head'["io"] = 0 /\ cq_phase'["io"] = 1
          /\ cqes'["io"] = ZeroRing("io")]_vars

\* The step in which queue q is marked enabled and online.
QueueComesUp(q) == ~enabled[q] /\ enabled'[q] /\ online'[q]

\* C31: when a queue is marked enabled and online its completion ring is all
\* zero, cq_head is 0 and cq_phase is 1, so no entry is pending and the
\* reaper finds nothing and changes nothing; and on a queue that is enabled,
\* with its memory its own, an entry is pending only when the device has
\* written one that was not reaped.
C31_FreshQueueEmpty ==
  /\ [][\A q \in Queues :
          QueueComesUp(q)
            => /\ cqes'[q] = ZeroRing(q)
               /\ cq_head'[q] = 0 /\ cq_phase'[q] = 1
               /\ ~apple_nvme_cqe_pending(q, Cur')
               /\ nvme_process_cq(q, Cur') = Cur']_vars
  /\ [](\A q \in Queues :
          (enabled[q] /\ q_mem[q] = "live" /\ hist.unreaped[q] = 0)
            => ~apple_nvme_cqe_pending(q, Cur))

\* The I/O queue has come up for the second time, after a reset of the live
\* controller: head 0, phase 1, ring zero, nothing pending.
C31_Witness ==
  /\ hist.nreset = 2 /\ hist.nalloc["io"] = 2
  /\ enabled["io"] /\ online["io"] /\ ctrl_state = "live"
  /\ cqes["io"] = ZeroRing("io")
  /\ cq_head["io"] = 0 /\ cq_phase["io"] = 1
  /\ ~apple_nvme_cqe_pending("io", Cur)

\* ------------------------------------------------- claims on the reaper

\* The command id of the entry at the head of the completion ring of q.
HeadId(q) == cqes[q][cq_head[q]].command_id

\* The entry at the head of q is pending and names no request: its id is not
\* the one of the asynchronous event and nvme_find_rq finds nothing for it.
UnknownAtHead(q) ==
  /\ apple_nvme_cqe_pending(q, Cur)
  /\ ~nvme_is_aen_req(q, HeadId(q))
  /\ ~nvme_find_rq(q, HeadId(q))

\* State n is the state with the entry at the head of q skipped: requests,
\* controller state, works and queue flags are as they are, the tracking
\* entry of the id is invalid, and the head is one further (with the phase
\* flipped at the wrap).
SkippedIn(q, n) ==
  /\ n.rq = rq /\ n.ctrl_state = ctrl_state /\ n.csts_cfs = csts_cfs
  /\ n.reset_work = reset_work /\ n.remove_work = remove_work
  /\ n.aen_work = aen_work /\ n.aen_out = aen_out
  /\ n.enabled = enabled /\ n.online = online /\ n.stopped = stopped
  /\ n.tcb[q][HeadId(q)] = ZeroTcb
  /\ HeadId(q) \notin n.hist.armed[q]
  /\ n.cq_head[q] = (cq_head[q] + 1) % q_depth(q)
  /\ n.cq_phase[q] = IF cq_head[q] + 1 = q_depth(q)
                     THEN 1 - cq_phase[q] ELSE cq_phase[q]

\* The entry after the head of q is pending too and answers request t, which
\* is in flight.
NextAnswers(q, t) ==
  LET idx == (cq_head[q] + 1) % q_depth(q)
      ph == IF cq_head[q] + 1 = q_depth(q) THEN 1 - cq_phase[q]
            ELSE cq_phase[q]
  IN /\ cqes[q][idx].status % 2 = ph
     /\ cqes[q][idx].command_id = t
     /\ rq[q][t].state = "in_flight"

\* The step of the platform interrupt.
IrqRuns ==
  /\ \E q \in Queues : online[q] /\ apple_nvme_cqe_pending(q, Cur)
  /\ Commit(apple_nvme_irq(Cur))

\* A device that answers a command it was not given: an entry with command
\* id cid and the device's phase goes to its completion tail.
device_post_spurious(q, cid, m) ==
  [m EXCEPT !.cqes[q][m.dev_tail[q]] =
               [command_id |-> cid, status |-> m.dev_phase[q]],
            !.dev_tail[q] = (@ + 1) % q_depth(q),
            !.dev_phase[q] = IF m.dev_tail[q] + 1 = q_depth(q)
                             THEN (@ + 1) % 2 ELSE @,
            !.hist.unreaped[q] = @ + 1,
            !.hist.nscribble = @ + 1]

DevicePostSpurious(q, cid) ==
  /\ csts_rdy /\ ~csts_cfs
  /\ cid \notin sq_db[q]
  /\ (dev_tail[q] + 1) % q_depth(q) # cq_db[q]
  /\ hist.nscribble < MaxScribble
  /\ Commit(device_post_spurious(q, cid, Cur))

\* The live driver with such a device: submissions, answers, the interrupt.
NextSpurious ==
  \/ \E q \in Queues, t \in TcbTags :
        \E c \in Cmds(q) :
          t \in TagsOf(q) /\ Submit(q, t, c, Submitted < MaxSubmit)
  \/ \E q \in Queues, t \in TcbTags : DevicePost(q, t)
  \/ \E q \in Queues, cid \in TcbTags : DevicePostSpurious(q, cid)
  \/ Irq
  \/ \E q \in Queues, t \in TcbTags : t \in TagsOf(q) /\ SoftirqDone(q, t)

SpecSpurious == InitLive(NoHist, << >>) /\ [][NextSpurious]_vars

\* The ring of q holds nothing new behind the entry after its head.
NoThird(q) ==
  LET idx == (cq_head[q] + 2) % q_depth(q)
      ph == IF cq_head[q] + 2 >= q_depth(q) THEN 1 - cq_phase[q]
            ELSE cq_phase[q]
  IN cqes[q][idx].status % 2 # ph

Consumed(q, n) ==
  (n.hist.consumed[q] + 2 * q_depth(q) - hist.consumed[q]) % (2 * q_depth(q))

\* The entries of q the device has posted that are waiting at the head.
RECURSIVE PendingFrom(_, _, _, _)
PendingFrom(q, idx, ph, left) ==
  IF left = 0 \/ cqes[q][idx].status % 2 # ph THEN 0
  ELSE 1 + PendingFrom(q, (idx + 1) % q_depth(q),
                       IF idx + 1 = q_depth(q) THEN 1 - ph ELSE ph, left - 1)

Waiting(q) == PendingFrom(q, cq_head[q], cq_phase[q], q_depth(q))

\* C33: nvme_process_cq returns the number of entries it consumed in the
\* call; its loop does not write the completion doorbell, and after the loop
\* the doorbell is written with the new cq_head when that number is not zero
\* and is not written when it is zero; apple_nvme_irq reports handled exactly
\* when a queue that is online consumed an entry.
C33_DrainCountsAndRingsOnce ==
  /\ [](\A q \in Queues :
          LET ret == process_cq_ret(q, Cur)
              l == process_cq_loop(q, Cur)
              n == nvme_process_cq(q, Cur)
          IN /\ ret = Consumed(q, n) /\ ret = Waiting(q)
             /\ n.cq_head[q] = (cq_head[q] + ret) % q_depth(q)
             /\ l.cq_db = cq_db
             /\ ret > 0 => n.cq_db[q] = n.cq_head[q]
             /\ ret = 0 => n.cq_db = cq_db
             /\ \A p \in Queues \ {q} : n.cq_db[p] = cq_db[p])
  /\ [](irq_handled(Cur)
          <=> \E q \in Queues :
                online[q] /\ Consumed(q, apple_nvme_irq(Cur)) > 0)
  /\ [][IrqRuns => /\ irq_handled(Cur)
                   /\ \A q \in Queues :
                        (online[q] /\ Waiting(q) > 0)
                          => cq_db'[q] = cq_head'[q]
                   /\ \A q \in Queues :
                        (~online[q] \/ Waiting(q) = 0)
                          => cq_db'[q] = cq_db[q]]_vars

\* The interrupt has consumed two entries of the I/O ring in one call and
\* none of the admin ring: the I/O doorbell holds the new head, the admin
\* doorbell what it held.
C33_Witness ==
  /\ hist.consumed["io"] = 2 /\ cq_head["io"] = 2 /\ cq_db["io"] = 2
  /\ hist.consumed["admin"] = 0 /\ cq_db["admin"] = 0
  /\ \A t \in {cqes["io"][0].command_id, cqes["io"][1].command_id} :
        t \in TagsOf("io") /\ rq["io"][t].state = "complete"
  /\ cqes["io"][0].command_id # cqes["io"][1].command_id
  /\ hist.unreaped["io"] = 0

\* ---------------------------- the DMA address filter's registers (SART)
\* (src/drivers/soc/apple/apple-sart.c)

\* sart2_get_entry / sart3_get_entry: the flags, and the address and size in
\* bytes. The registers are kept by field: the flags (8 bits), the address in
\* pages and the size in pages (24 bits of CONFIG on SARTv2, the SIZE register
\* on SARTv3). Every address of the model is below 2^31, so the 32-bit width
\* of the PADDR and SIZE registers cuts nothing off here.
sart_get_entry(ops, r) ==
  [flags |-> r.config % (2 ^ 8),
   size |-> r.size * (2 ^ APPLE_SART_CONFIG_SIZE_SHIFT),
   paddr |-> r.paddr * (2 ^ APPLE_SART_PADDR_SHIFT)]

\* sart2_set_entry / sart3_set_entry: the register fields written for flags,
\* an address in bytes and a size in bytes.
sart_set_entry(ops, flags, paddr, size) ==
  [config |-> flags % (2 ^ 8),
   paddr |-> paddr \div (2 ^ APPLE_SART_PADDR_SHIFT),
   size |-> IF ops = "v2"
            THEN (size \div (2 ^ APPLE_SART_CONFIG_SIZE_SHIFT)) % (2 ^ 24)
            ELSE size \div (2 ^ APPLE_SART_CONFIG_SIZE_SHIFT)]

\* apple_sart_probe over the registers the bootloader left: every entry with
\* non-zero flags is protected.
apple_sart_probe(ops, regs) ==
  [ops |-> ops, regs |-> regs,
   protected_entries |->
     {i \in SartEntryIds : sart_get_entry(ops, regs[i]).flags # 0},
   used_entries |-> {}, ret |-> "0", idx |-> -1]

SartMin(S) == CHOOSE i \in S : \A j \in S : i <= j

SartAligned(x) == x % (2 ^ APPLE_SART_PADDR_SHIFT) = 0

\* apple_sart_add_allowed_region at the registers: the first entry that is
\* neither protected nor in use.
sart_add_allowed_region(paddr, size, m) ==
  LET s == m.sart
      free == {i \in SartEntryIds :
                 i \notin s.protected_entries /\ i \notin s.used_entries}
  IN  IF ~SartAligned(size) \/ ~SartAligned(paddr)
      THEN [m EXCEPT !.sart.ret = "-EINVAL", !.sart.idx = -1]
      ELSE IF free = {}
      THEN [m EXCEPT !.sart.ret = "-EBUSY", !.sart.idx = -1]
      ELSE LET i == SartMin(free)
           IN  [m EXCEPT !.sart.used_entries = @ \cup {i},
                         !.sart.regs[i] =
                           sart_set_entry(s.ops, APPLE_SART_CONFIG_FLAGS_ALLOW,
                                          paddr, size),
                         !.sart.ret = "0", !.sart.idx = i]

\* apple_sart_remove_allowed_region: the arguments are shifted down to pages
\* and compared with what get_entry returns, the first entry that compares
\* equal is cleared.
apple_sart_remove_allowed_region(paddr, size, m) ==
  LET s == m.sart
      sz == size \div (2 ^ APPLE_SART_CONFIG_SIZE_SHIFT)
      pa == paddr \div (2 ^ APPLE_SART_PADDR_SHIFT)
      match == {i \in SartEntryIds :
                  LET e == sart_get_entry(s.ops, s.regs[i])
                  IN  e.paddr = pa /\ e.size = sz}
  IN  IF ~SartAligned(size) \/ ~SartAligned(paddr)
      THEN [m EXCEPT !.sart.ret = "-EINVAL", !.sart.idx = -1]
      ELSE IF match = {}
      THEN [m EXCEPT !.sart.ret = "-EINVAL", !.sart.idx = -1]
      ELSE LET i == SartMin(match)
           IN  [m EXCEPT !.sart.regs[i] = sart_set_entry(s.ops, 0, 0, 0),
                         !.sart.used_entries = @ \ {i},
                         !.sart.ret = "0", !.sart.idx = i]

\* apple_sart_shutdown: every entry that is not protected is cleared.
apple_sart_shutdown(m) ==
  [m EXCEPT !.sart.regs =
              [i \in SartEntryIds |->
                 IF i \in m.sart.protected_entries
                 THEN @[i]
                 ELSE sart_set_entry(m.sart.ops, 0, 0, 0)],
            !.sart.ret = "0", !.sart.idx = -1]

\* Arguments of the calls: page-aligned addresses and sizes, one of them the
\* page count of another taken as bytes, and one that is not aligned.
SartPage == 2 ^ APPLE_SART_PADDR_SHIFT
SartArgs == {0, SartPage, 2 * SartPage, SartPage * SartPage, SartPage + 1}

\* What the bootloader may have left in an entry.
BootEntries ==
  {[flags |-> 0, paddr |-> 0, size |-> 0],
   [flags |-> APPLE_SART_CONFIG_FLAGS_ALLOW, paddr |-> SartPage,
    size |-> SartPage],
   [flags |-> APPLE_SART_CONFIG_FLAGS_ALLOW, paddr |-> 2 * SartPage,
    size |-> SartPage]}

SartAdd(paddr, size) ==
  Commit(sart_add_allowed_region(paddr, size, Cur))

SartRemove(paddr, size) ==
  Commit(apple_sart_remove_allowed_region(paddr, size, Cur))

SartShutdown == Commit(apple_sart_shutdown(Cur))

NextSartRegs ==
  \/ \E paddr \in SartArgs : \E size \in SartArgs : SartAdd(paddr, size)
  \/ \E paddr \in SartArgs : \E size \in SartArgs : SartRemove(paddr, size)
  \/ SartShutdown

InitSartRegs ==
  \E ops \in SartOps :
    \E boot \in [SartEntryIds -> BootEntries] :
      LET regs == [i \in SartEntryIds |->
                     sart_set_entry(ops, boot[i].flags, boot[i].paddr,
                                    boot[i].size)]
      IN  /\ ColdDriver /\ sart = apple_sart_probe(ops, regs)
          /\ rtk = RtkNone /\ probe = ProbeNone

SpecSartRegs == InitSartRegs /\ [][NextSartRegs]_vars

\* C34: for all page-aligned paddr and size, an add that succeeds followed by
\* the remove of the same paddr and size returns 0, leaves the entry the add
\* wrote cleared, and leaves that entry out of used_entries, free for a later
\* add.
C34_AddThenRemoveClears ==
  \A paddr \in SartArgs : \A size \in SartArgs :
    LET a == sart_add_allowed_region(paddr, size, Cur)
        r == apple_sart_remove_allowed_region(paddr, size, a)
    IN  (SartAligned(paddr) /\ SartAligned(size) /\ a.sart.ret = "0") =>
          /\ r.sart.ret = "0"
          /\ r.sart.regs[a.sart.idx] = ZeroSartRegs
          /\ a.sart.idx \notin r.sart.used_entries

\* C35: no step of add, remove or shutdown, whatever its arguments, changes
\* the registers of an entry recorded in protected_entries.
C35_ProtectedUntouched ==
  [][\A i \in sart.protected_entries : sart'.regs[i] = sart.regs[i]]_vars

\* C36: in every state, a queue whose enabled flag is set or that is online
\* has its rings and its tracking table allocated; no step frees them while
\* the queue can still be submitted to or drained.
C36_EnabledQueueMemoryLive ==
  \A q \in Queues : (enabled[q] \/ online[q]) => q_mem[q] = "live"

\* The abort commands in flight: admin requests that were allocated with
\* apple_abort_endio as their end_io and have not been freed yet.
AbortsOut ==
  Cardinality({t \in TagsOf("admin") : rq["admin"][t].end_io = "abort_endio"})

\* C37: between handler calls the abort budget plus the number of abort
\* commands in flight is the budget's initial value (0 until the first
\* identify has set it, AbortLimit from then on, for good); the budget is
\* never negative and never above AbortLimit, and at most AbortLimit aborts
\* are in flight.
C37_AbortBudgetBalanced ==
  /\ [](/\ abort_limit >= 0 /\ abort_limit <= AbortLimit
        /\ AbortsOut <= AbortLimit
        /\ abort_limit + AbortsOut \in {0, AbortLimit})
  /\ [][abort_limit + AbortsOut = AbortLimit
          => abort_limit' + AbortsOut' = AbortLimit]_vars

\* An abort is in flight and the budget is used up; a second timeout found no
\* budget, and an abort has come back.
C37_Witness ==
  /\ AbortsOut = AbortLimit /\ abort_limit = 0
  /\ tmo.act = "no_budget"

\* A step in which a run of apple_nvme_reset_work returns: the first part
\* when it does not get to the identify, or the second part.
ResetWorkReturns ==
  \/ \E up \in BOOLEAN : \E answered \in BOOLEAN :
       ResetWorkBegin(up, answered) /\ reset_work' # "wait"
  \/ \E ok \in BOOLEAN : \E answered \in BOOLEAN : ResetWorkEnd(ok, answered)

\* The controller is live and its admin queue enabled.
EndsLive(d) == d.ctrl_state = "live" /\ d.enabled["admin"]

\* The controller is with apple_nvme_remove_dead_ctrl: deleting, both queues
\* suspended and every request ended, the removal work queued.
EndsRemoved(d) ==
  d.ctrl_state = "deleting" /\ AllSuspended(d) /\ d.remove_work

MaxFifo == 2

ENOMEM == 12
ENODEV == 19
EINVAL == 22
ENXIO == 6
ETIME == 62
ERESTARTSYS == 512
ENOTSUPP == 524

APPLE_RTKIT_MGMT_HELLO == 1
APPLE_RTKIT_MGMT_EPMAP == 8
APPLE_RTKIT_MGMT_BOOT_DONE == 7
APPLE_RTKIT_MGMT_BOOT_DONE2 == 11
APPLE_RTKIT_MIN_SUPPORTED_VERSION == 11
APPLE_RTKIT_MAX_SUPPORTED_VERSION == 12

\* Management messages of the coprocessor: the type, and the version range
\* of a HELLO.
MgmtMsg(type, min_ver, max_ver) ==
  [type |-> type, min_ver |-> min_ver, max_ver |-> max_ver]

RtkMsgs ==
  {MgmtMsg(APPLE_RTKIT_MGMT_HELLO, APPLE_RTKIT_MIN_SUPPORTED_VERSION,
           APPLE_RTKIT_MAX_SUPPORTED_VERSION),
   MgmtMsg(APPLE_RTKIT_MGMT_HELLO, APPLE_RTKIT_MAX_SUPPORTED_VERSION + 1,
           APPLE_RTKIT_MAX_SUPPORTED_VERSION + 2),
   MgmtMsg(APPLE_RTKIT_MGMT_HELLO, APPLE_RTKIT_MIN_SUPPORTED_VERSION - 2,
           APPLE_RTKIT_MIN_SUPPORTED_VERSION - 1),
   MgmtMsg(APPLE_RTKIT_MGMT_EPMAP, 0, 0),
   MgmtMsg(APPLE_RTKIT_MGMT_BOOT_DONE, 0, 0),
   MgmtMsg(APPLE_RTKIT_MGMT_BOOT_DONE2, 0, 0)}

\* complete(&rtk->boot_completion) and complete_all().
rtk_complete(m) == [m EXCEPT !.rtk.done = @ + 1]
rtk_complete_all(m) == [m EXCEPT !.rtk.all = TRUE]

\* apple_rtkit_boot_abort.
apple_rtkit_boot_abort(res, m) ==
  rtk_complete([m EXCEPT !.rtk.state = "boot_failed",
                         !.rtk.boot_result = res,
                         !.rtk.chan = "freed"])

\* apple_rtkit_management_rx_hello.
apple_rtkit_management_rx_hello(msg, m) ==
  IF msg.min_ver > APPLE_RTKIT_MAX_SUPPORTED_VERSION
  THEN apple_rtkit_boot_abort(-ENOTSUPP, m)
  ELSE IF msg.max_ver < APPLE_RTKIT_MIN_SUPPORTED_VERSION
  THEN apple_rtkit_boot_abort(-ENOTSUPP, m)
  ELSE [m EXCEPT !.rtk.version =
                   IF APPLE_RTKIT_MAX_SUPPORTED_VERSION < msg.max_ver
                   THEN APPLE_RTKIT_MAX_SUPPORTED_VERSION ELSE msg.max_ver]

\* apple_rtkit_management_rx_boot_done2.
apple_rtkit_management_rx_boot_done2(m) ==
  rtk_complete_all([m EXCEPT !.rtk.state = "running"])

\* apple_rtkit_management_rx: the endpoint map and the first boot-done
\* message are answered and change nothing in struct apple_rtkit that the
\* boot depends on.
apple_rtkit_management_rx(msg, m) ==
  CASE msg.type = APPLE_RTKIT_MGMT_HELLO ->
         apple_rtkit_management_rx_hello(msg, m)
    [] msg.type = APPLE_RTKIT_MGMT_BOOT_DONE2 ->
         apple_rtkit_management_rx_boot_done2(m)
    [] OTHER -> m

\* apple_rtkit_rx_callback: the mailbox hands a message to the FIFO.
apple_rtkit_rx_callback(msg, m) == [m EXCEPT !.rtk.fifo = Append(@, msg)]

\* One round of apple_rtkit_worker: kfifo_out and apple_rtkit_rx.
apple_rtkit_worker(m) ==
  apple_rtkit_management_rx(Head(m.rtk.fifo),
                            [m EXCEPT !.rtk.fifo = Tail(@)])

\* apple_rtkit_boot: with the coprocessor's CPU running the wakeup message
\* is sent (send_err is mbox_send_message's error, 0 for none).
apple_rtkit_boot(cpu_run, send_err, m) ==
  IF m.rtk.state # "init" THEN [m EXCEPT !.rtk.ret = 0]
  ELSE IF cpu_run /\ send_err # 0
  THEN [apple_rtkit_boot_abort(send_err, [m EXCEPT !.rtk.state = "booting"])
          EXCEPT !.rtk.ret = send_err]
  ELSE [m EXCEPT !.rtk.state = "booting", !.rtk.ret = 0]

\* apple_rtkit_boot_wait up to its wait on boot_completion.
boot_wait_call(cpu_run, send_err, m) ==
  CASE m.rtk.state = "running" ->
         [m EXCEPT !.rtk.ret = 0, !.rtk.wait = "returned"]
    [] m.rtk.state = "boot_failed" ->
         [m EXCEPT !.rtk.ret = -EINVAL, !.rtk.wait = "returned"]
    [] OTHER ->
         LET b == apple_rtkit_boot(cpu_run, send_err, m)
         IN  [b EXCEPT !.rtk.wait = IF b.rtk.ret # 0 THEN "returned"
                                    ELSE "waiting"]

\* wait_for_completion_interruptible_timeout ends: by the completion, by the
\* timeout (nothing completed) or by a signal; then the state decides.
boot_wait_wake(t, m) ==
  CASE t = "signal" ->
         [m EXCEPT !.rtk.ret = -ERESTARTSYS, !.rtk.wait = "returned"]
    [] t = "timeout" ->
         [m EXCEPT !.rtk.ret = -ETIME, !.rtk.wait = "returned"]
    [] OTHER ->
         [m EXCEPT !.rtk.done = IF m.rtk.all THEN @ ELSE @ - 1,
                   !.rtk.ret = IF m.rtk.state = "running" THEN 0
                               ELSE m.rtk.boot_result,
                   !.rtk.wait = "returned"]

boot_completed(m) == m.rtk.all \/ m.rtk.done > 0

\* apple_rtkit_init succeeded: the worker runs, the channel is open.
RtkReady == [RtkNone EXCEPT !.chan = "open"]

RtkRxCallback(msg) ==
  /\ rtk.chan = "open"
  /\ Len(rtk.fifo) < MaxFifo
  /\ Commit(apple_rtkit_rx_callback(msg, Cur))

RtkWorker ==
  /\ rtk.fifo # << >>
  /\ Commit(apple_rtkit_worker(Cur))

RtkBootWait(cpu_run, send_err) ==
  /\ rtk.wait # "waiting"
  /\ Commit(boot_wait_call(cpu_run, send_err, Cur))

RtkBootWake(t) ==
  /\ rtk.wait = "waiting"
  /\ (t = "done") = boot_completed(Cur)
  /\ Commit(boot_wait_wake(t, Cur))

NextRtkit ==
  \/ \E msg \in RtkMsgs : RtkRxCallback(msg)
  \/ RtkWorker
  \/ \E cpu_run \in BOOLEAN : \E send_err \in {0, -ENODEV} :
       RtkBootWait(cpu_run, send_err)
  \/ \E t \in {"done", "timeout", "signal"} : RtkBootWake(t)

InitRtkit ==
  ColdDriver /\ sart = SartIdle /\ rtk = RtkReady /\ probe = ProbeNone

SpecRtkit == InitRtkit /\ [][NextRtkit]_vars

\* An apple_rtkit_boot_wait call returns in this step.
BootWaitReturns == rtk.wait # "returned" /\ rtk'.wait = "returned"

\* C40: a boot that has failed stays failed, whatever message the worker
\* takes from the FIFO next; a call of apple_rtkit_boot_wait that returns
\* after a boot abort was recorded (boot_result is set) returns non-zero;
\* and a call of apple_rtkit_boot_wait that returns 0 leaves the state
\* running.
C40_BootFailedAbsorbing ==
  [][/\ rtk.state = "boot_failed" => rtk'.state = "boot_failed"
     /\ (BootWaitReturns /\ rtk.boot_result # 0) => rtk'.ret # 0
     /\ (BootWaitReturns /\ rtk'.ret = 0) => rtk'.state = "running"]_vars

\* ------------------------------------------------------ apple_nvme_probe
\* (apple-ans.c 1719-1814, with apple_sart_get and apple_rtkit_init)

\* IS_ERR, PTR_ERR, and the test !ptr.
IS_ERR(ptr) == ptr.kind = "err" /\ ptr.val < 0
PTR_ERR(ptr) == ptr.val
IsNull(ptr) == ptr.kind = "null"

\* Error values of the calls whose code is elsewhere: 0 or a negative errno.
CallErrs == {0, -ENOMEM, -ENODEV}

\* apple_sart_get: the SART of the apple,sart phandle.
apple_sart_get(found) == IF found THEN Obj ELSE ERR_PTR(ENODEV)

\* apple_rtkit_init: the handle, or an error pointer for a failed
\* allocation, register mapping or mailbox request. The worker is started
\* before the mailbox channel is requested.
apple_rtkit_init(alloc_ok, regs_err, chan_err, m) ==
  IF ~alloc_ok THEN [m EXCEPT !.probe.rtk = ERR_PTR(-ENOMEM)]
  ELSE IF regs_err # 0 THEN [m EXCEPT !.probe.rtk = ERR_PTR(regs_err)]
  ELSE IF chan_err # 0 THEN [m EXCEPT !.probe.rtk = ERR_PTR(chan_err)]
  ELSE [m EXCEPT !.probe.rtk = Obj, !.rtk = RtkReady]

\* The labels out_unmap and out: apple_nvme_dev_free, return result.
probe_out(step, m) ==
  [m EXCEPT !.probe.pc = "returned", !.probe.ret = m.probe.result,
            !.probe.freed = TRUE,
            !.probe.failed = IF @ = "none" THEN step ELSE @]

\* A step failed and apple_nvme_probe goes on.
probe_missed(step, m) ==
  [m EXCEPT !.probe.failed = IF @ = "none" THEN step ELSE @]

\* The coprocessor handle: apple_rtkit_init and the test of its result. With
\* an error pointer in dev->rtk the next statement, apple_rtkit_boot_wait,
\* reads rtk->state through it.
probe_rtkit(alloc_ok, regs_err, chan_err, m) ==
  LET r == apple_rtkit_init(alloc_ok, regs_err, chan_err, m)
  IN  IF IsNull(r.probe.rtk)
      THEN probe_out("rtkit_init", [r EXCEPT !.probe.result = PTR_ERR(r.probe.rtk)])
      ELSE IF r.probe.rtk.kind = "err"
      THEN [probe_missed("rtkit_init", r) EXCEPT !.probe.pc = "oops"]
      ELSE [r EXCEPT !.probe.pc = "boot_wait"]

\* The address filter and the coprocessor's registers.
probe_services(sart_found, res_found, m) ==
  LET s == [m EXCEPT !.probe.sart = apple_sart_get(sart_found)]
  IN  IF IS_ERR(s.probe.sart)
      THEN probe_out("sart", [s EXCEPT !.probe.result = PTR_ERR(s.probe.sart)])
      ELSE IF ~res_found
      THEN probe_out("coproc", [(IF sart_found THEN s
                                 ELSE probe_missed("sart", s))
                                EXCEPT !.probe.result = -EINVAL])
      ELSE IF sart_found THEN s ELSE probe_missed("sart", s)

\* From the start to devm_request_irq.
probe_resources(alloc_ok, map_err, dma_ok, irq, req_err, m) ==
  IF ~alloc_ok
  THEN [m EXCEPT !.probe.pc = "returned", !.probe.ret = -ENOMEM,
                 !.probe.failed = "alloc"]
  ELSE IF map_err # 0
  THEN probe_out("ioremap", [m EXCEPT !.probe.result = map_err])
  ELSE IF ~dma_ok
  THEN probe_out("dma_mask", [m EXCEPT !.probe.result = ENXIO])
  ELSE IF irq < 0
  THEN probe_out("get_irq", [m EXCEPT !.probe.result = irq])
  ELSE IF req_err # 0
  THEN probe_out("request_irq", [m EXCEPT !.probe.result = req_err])
  ELSE [m EXCEPT !.probe.result = req_err, !.probe.pc = "services"]

\* apple_nvme_probe up to its call of apple_rtkit_boot_wait; in holds the
\* outcomes of the calls it makes.
probe_begin(in, m) ==
  LET a == probe_resources(in.alloc_ok, in.map_err, in.dma_ok, in.irq,
                           in.req_err, m)
  IN  IF a.probe.pc # "services" THEN a
      ELSE LET b == probe_services(in.sart_found, in.res_found, a)
           IN  IF b.probe.pc # "services" THEN b
               ELSE probe_rtkit(in.rtk_alloc_ok, in.regs_err, in.chan_err, b)

\* apple_nvme_probe after apple_rtkit_boot_wait returned rtk.ret: the boot
\* status poll, the queue configuration registers, nvme_init_ctrl and the
\* first reset.
probe_finish(poll_err, init_err, m) ==
  IF m.rtk.ret # 0 THEN probe_out("boot_wait", m)
  ELSE IF poll_err # 0
  THEN probe_out("boot_status", [m EXCEPT !.probe.result = poll_err])
  ELSE IF init_err # 0
  THEN probe_out("init_ctrl",
                 [m EXCEPT !.probe.booted = TRUE, !.probe.regs = TRUE,
                           !.probe.result = init_err])
  ELSE [nvme_reset_ctrl(m)
        EXCEPT !.probe.booted = TRUE, !.probe.regs = TRUE,
               !.probe.result = init_err, !.probe.ret = 0,
               !.probe.pc = "returned"]

\* The outcomes of the calls apple_nvme_probe makes before the boot.
ProbeInputs ==
  [alloc_ok : BOOLEAN, map_err : CallErrs, dma_ok : BOOLEAN,
   irq : {-ENXIO, 1}, req_err : CallErrs, sart_found : BOOLEAN,
   res_found : BOOLEAN, rtk_alloc_ok : BOOLEAN, regs_err : CallErrs,
   chan_err : CallErrs]

ProbeBegin(in) ==
  /\ probe.pc = "none"
  /\ Commit(probe_begin(in, Cur))

ProbeBootWait(cpu_run, send_err) ==
  /\ probe.pc = "boot_wait"
  /\ rtk.wait = "never"
  /\ Commit(boot_wait_call(cpu_run, send_err, Cur))

ProbeBootWake(t) ==
  /\ probe.pc = "boot_wait"
  /\ RtkBootWake(t)

ProbeFinish(poll_err, init_err) ==
  /\ probe.pc = "boot_wait"
  /\ rtk.wait = "returned"
  /\ Commit(probe_finish(poll_err, init_err, Cur))

NextProbe ==
  \/ \E in \in ProbeInputs : ProbeBegin(in)
  \/ \E cpu_run \in BOOLEAN : \E send_err \in CallErrs :
       ProbeBootWait(cpu_run, send_err)
  \/ \E msg \in RtkMsgs : RtkRxCallback(msg)
  \/ RtkWorker
  \/ \E t \in {"done", "timeout", "signal"} : ProbeBootWake(t)
  \/ \E poll_err, init_err \in CallErrs : ProbeFinish(poll_err, init_err)

InitProbe ==
  DriverAt("new", "idle") /\ sart = SartIdle /\ rtk = RtkNone
    /\ probe = ProbeNone

SpecProbe == InitProbe /\ [][NextProbe]_vars

\* C39: a step of apple_nvme_probe that failed has made it return a negative
\* error code; a probe that freed the device context did not return 0 or a
\* positive value; and the queue configuration registers are written only
\* after the coprocessor has booted.
C39_ProbeFailsNegative ==
  /\ probe.failed # "none" => (probe.pc = "returned" /\ probe.ret < 0)
  /\ (probe.pc = "returned" /\ probe.freed) => probe.ret < 0
  /\ probe.regs => probe.booted

====
